---------------------------- MODULE Spec2Model ----------------------------
(***************************************************************************)
(* CorpSpend / FinLedger: the fraud-gated, lock-serialized transaction     *)
(* engine (LedgerService.process_transaction), the synchronous fraud       *)
(* engine (FraudEngine.check_transaction) and the receipt reconciler       *)
(* (worker task match_receipt) over one PostgreSQL store running at        *)
(* READ COMMITTED.                                                         *)
(*                                                                         *)
(* Money is counted in cents (Numeric(15,2)), risk scores in 1/10000       *)
(* (Decimal with four places), time in seconds.  Strings are sequences of  *)
(* one-character strings so that upper(), strip() and `in` are computed.   *)
(***************************************************************************)
EXTENDS Integers, Sequences, FiniteSets, TLC

VARIABLES
    cards,          \* table cards: id -> committed row
    txlog,          \* table transactions: committed rows, in insertion order
    lock,           \* row lock of each card: holding request, or 0
    rules,          \* FraudEngine.rules of the singleton engine
    recent,         \* VelocityRule._recent_transactions: card id -> timestamps
    now,            \* wall clock (time.time(), datetime.utcnow())
    pc,             \* position of each request thread in process_transaction
    req,            \* its arguments card_id, amount, merchant_name
    fraud_result,   \* its local fraud_result
    card,           \* its local ORM object card (row as read under the lock)
    transaction,    \* id of its local ORM object transaction, 0 when none
    outcome,        \* how its call ended: "success" or the error raised/returned
    start,          \* what was committed when its call began (history)
    task,           \* each match_receipt task: position, arguments, locals
    velocity        \* VelocityRule.evaluate on each request thread: its
                    \* position and locals, when the threads interleave in it

vars == <<cards, txlog, lock, rules, recent, now, pc, req, fraud_result, card,
          transaction, outcome, start, task, velocity>>

-----------------------------------------------------------------------------
(* Bounds of the model *)

NumRequests == 2      \* process_transaction calls, each on a thread of its own
NumTasks == 2         \* match_receipt deliveries, each on a worker of its own
NumReconRequests == 1 \* of them, the calls made while match_receipt tasks run
VelocityCap == 1      \* max_transactions_per_minute the engine is configured with

Requests == 1..NumRequests
Tasks == 1..NumTasks

-----------------------------------------------------------------------------
(* Strings *)

Lower ==
    <<"a","b","c","d","e","f","g","h","i","j","k","l","m",
      "n","o","p","q","r","s","t","u","v","w","x","y","z">>
Capital ==
    <<"A","B","C","D","E","F","G","H","I","J","K","L","M",
      "N","O","P","Q","R","S","T","U","V","W","X","Y","Z">>

\* str.upper() of one character
UpperChar(ch) ==
    IF \E i \in DOMAIN Lower : Lower[i] = ch
    THEN Capital[CHOOSE i \in DOMAIN Lower : Lower[i] = ch]
    ELSE ch

upper(s) == [i \in DOMAIN s |-> UpperChar(s[i])]

RECURSIVE lstrip(_)
lstrip(s) == IF s # <<>> /\ Head(s) = " " THEN lstrip(Tail(s)) ELSE s

RECURSIVE rstrip(_)
rstrip(s) ==
    IF s # <<>> /\ s[Len(s)] = " " THEN rstrip(SubSeq(s, 1, Len(s) - 1)) ELSE s

strip(s) == rstrip(lstrip(s))

\* Python's `sub in s` for strings
Contains(sub, s) ==
    \E i \in 0..(Len(s) - Len(sub)) : SubSeq(s, i + 1, i + Len(sub)) = sub

SUSPICIOUS_VENDOR_1 ==
    <<"S","U","S","P","I","C","I","O","U","S","_","V","E","N","D","O","R","_","1">>
BLACKLISTED_MERCHANT ==
    <<"B","L","A","C","K","L","I","S","T","E","D","_","M","E","R","C","H","A","N","T">>
FRAUD_CORP == <<"F","R","A","U","D","_","C","O","R","P">>
SCAM_ENTERPRISES ==
    <<"S","C","A","M","_","E","N","T","E","R","P","R","I","S","E","S">>

MERCHANT_BLACKLIST ==
    {SUSPICIOUS_VENDOR_1, BLACKLISTED_MERCHANT, FRAUD_CORP, SCAM_ENTERPRISES}

-----------------------------------------------------------------------------
(* Fraud engine *)

\* FRAUD_MAX_TRANSACTION_AMOUNT, $5000.00
max_amount == 500000

\* MerchantBlacklistRule.__init__: the configured terms, upper-cased
blacklist == {upper(m) : m \in MERCHANT_BLACKLIST}

\* the sliding window of VelocityRule, seconds
VelocityWindow == 60

\* Decimal('0.7000'): the score from which a result no longer passes
FlagThreshold == 7000

\* Decimal('1.0000'): the cap of the score, and the weight of a critical rule
FullScore == 10000

AmountThresholdRule == [name |-> "AMOUNT_THRESHOLD", weight |-> 10000]
MerchantBlacklistRule == [name |-> "MERCHANT_BLACKLIST", weight |-> 10000]
VelocityRule == [name |-> "VELOCITY_CHECK", weight |-> 3000]
\* a rule added with FraudEngine.add_rule: any FraudRule subclass, here of
\* weight 0.7000; what its evaluate() does is an input of each check
CustomRule == [name |-> "CUSTOM", weight |-> 7000]

\* rules added with FraudEngine.add_rule whose evaluate() does not depend on
\* its arguments: a FraudRule that does not override evaluate(), of weight
\* 1.0000, and two rules that report every transaction, of weights 0.4000
\* and 0.7000
BrokenRule == [name |-> "BROKEN", weight |-> 10000]
AlertRuleA == [name |-> "ALERT_A", weight |-> 4000]
AlertRuleB == [name |-> "ALERT_B", weight |-> 7000]

DefaultRules == <<AmountThresholdRule, MerchantBlacklistRule, VelocityRule>>

add_rule(rs, rule) == Append(rs, rule)

\* FraudCheckResult()
NewFraudCheckResult ==
    [passed |-> TRUE, score |-> 0, reasons |-> <<>>, blocked |-> FALSE]

Min(a, b) == IF a <= b THEN a ELSE b

\* the score without its cap
add_risk_uncapped(result, risk_points, reason) ==
    LET score == result.score + risk_points
    IN  [result EXCEPT !.score = score,
                       !.reasons = Append(@, reason),
                       !.passed = IF score >= FlagThreshold THEN FALSE ELSE @]

add_risk(result, risk_points, reason) ==
    LET score == Min(FullScore, result.score + risk_points)
    IN  [result EXCEPT !.score = score,
                       !.reasons = Append(@, reason),
                       !.passed = IF score >= FlagThreshold THEN FALSE ELSE @]

\* Each evaluate() gives [raised, violated, reason, recent]: whether it raised,
\* the pair it returned, and the velocity windows it leaves behind.  A reason
\* is modelled by the message template that produced it.
AmountThresholdEvaluate(amount, rec) ==
    IF amount > max_amount
    THEN [raised |-> FALSE, violated |-> TRUE,
          reason |-> "exceeds maximum allowed", recent |-> rec]
    ELSE [raised |-> FALSE, violated |-> FALSE, reason |-> "None", recent |-> rec]

\* the exact match alone
ExactMatchEvaluate(merchant_name, rec) ==
    IF strip(upper(merchant_name)) \in blacklist
    THEN [raised |-> FALSE, violated |-> TRUE,
          reason |-> "is on the blacklist", recent |-> rec]
    ELSE [raised |-> FALSE, violated |-> FALSE, reason |-> "None",
          recent |-> rec]

MerchantBlacklistEvaluate(merchant_name, rec) ==
    LET normalized_merchant == strip(upper(merchant_name))
    IN  IF normalized_merchant \in blacklist
        THEN [raised |-> FALSE, violated |-> TRUE,
              reason |-> "is on the blacklist", recent |-> rec]
        ELSE IF \E blacklisted \in blacklist :
                    Contains(blacklisted, normalized_merchant)
        THEN [raised |-> FALSE, violated |-> TRUE,
              reason |-> "matches blacklist pattern", recent |-> rec]
        ELSE [raised |-> FALSE, violated |-> FALSE, reason |-> "None",
              recent |-> rec]

\* the attempt recorded whether reported or not
VelocityAlwaysRecords(card_id, current_time, rec) ==
    LET cleaned == SelectSeq(rec[card_id],
                             LAMBDA t : current_time - t < VelocityWindow)
    IN  [raised |-> FALSE, violated |-> Len(cleaned) >= VelocityCap,
         reason |-> IF Len(cleaned) >= VelocityCap
                    THEN "Too many transactions in short period" ELSE "None",
         recent |-> [rec EXCEPT ![card_id] = Append(cleaned, current_time)]]

VelocityEvaluate(card_id, current_time, rec) ==
    LET cleaned == SelectSeq(rec[card_id],
                             LAMBDA t : current_time - t < VelocityWindow)
    IN  IF Len(cleaned) >= VelocityCap
        THEN [raised |-> FALSE, violated |-> TRUE,
              reason |-> "Too many transactions in short period",
              recent |-> [rec EXCEPT ![card_id] = cleaned]]
        ELSE [raised |-> FALSE, violated |-> FALSE, reason |-> "None",
              recent |-> [rec EXCEPT ![card_id] = Append(cleaned, current_time)]]

\* evaluate() of an added rule: behaves as the input `custom` says
CustomEvaluate(custom, rec) ==
    [raised |-> custom = "raise", violated |-> custom = "violated",
     reason |-> IF custom = "violated" THEN "custom rule violated" ELSE "None",
     recent |-> rec]

\* an exception taken for a violation
CountedAsViolation(rec) ==
    [raised |-> FALSE, violated |-> TRUE, reason |-> "error", recent |-> rec]

\* FraudRule.evaluate, not overridden: raise NotImplementedError
NotImplementedEvaluate(rec) ==
    [raised |-> TRUE, violated |-> FALSE, reason |-> "None", recent |-> rec]

\* evaluate() of a rule that reports every transaction, its name the reason
AlertEvaluate(rule, rec) ==
    [raised |-> FALSE, violated |-> TRUE, reason |-> rule.name, recent |-> rec]

Evaluate(rule, ctx, rec) ==
    CASE rule.name = "AMOUNT_THRESHOLD" -> AmountThresholdEvaluate(ctx.amount, rec)
      [] rule.name = "MERCHANT_BLACKLIST" ->
            MerchantBlacklistEvaluate(ctx.merchant_name, rec)
      [] rule.name = "VELOCITY_CHECK" ->
            VelocityEvaluate(ctx.card_id, ctx.current_time, rec)
      [] rule.name = "BROKEN" -> NotImplementedEvaluate(rec)
      [] rule.name \in {"ALERT_A", "ALERT_B"} -> AlertEvaluate(rule, rec)
      [] OTHER -> CustomEvaluate(ctx.custom, rec)

\* `if rule.weight >= Decimal('1.0000')`: the rule is critical
NeverCritical(rule) == FALSE

IsCritical(rule) == rule.weight >= FullScore

\* the loop of check_transaction from rule i on
RECURSIVE RunRules(_, _, _, _, _)
RunRules(rs, i, ctx, result, rec) ==
    IF i > Len(rs)
    THEN [result |-> result, recent |-> rec]
    ELSE LET ev == Evaluate(rs[i], ctx, rec)
         IN  IF ev.raised
             THEN RunRules(rs, i + 1, ctx, result, rec)
             ELSE IF ev.violated
             THEN LET r1 == add_risk(result, rs[i].weight, ev.reason)
                  IN  IF IsCritical(rs[i])
                      THEN [result |-> [r1 EXCEPT !.blocked = TRUE,
                                                  !.passed = FALSE],
                            recent |-> ev.recent]
                      ELSE RunRules(rs, i + 1, ctx, r1, ev.recent)
             ELSE RunRules(rs, i + 1, ctx, result, ev.recent)

check_transaction(rs, ctx, rec) == RunRules(rs, 1, ctx, NewFraudCheckResult, rec)

-----------------------------------------------------------------------------
(* Store: tables cards and transactions *)

CardStatus == {"ACTIVE", "FROZEN", "CANCELLED"}
TransactionStatus == {"PENDING", "APPROVED", "DECLINED", "VERIFIED", "FLAGGED"}

\* Card.available_balance
available_balance(c) == c.spending_limit - c.current_balance

\* CHECK constraints of table cards
CardConstraints(c) ==
    /\ c.current_balance >= 0
    /\ c.current_balance <= c.spending_limit
    /\ c.spending_limit > 0

\* CHECK constraint of table transactions
TransactionConstraints(t) == t.amount > 0

\* The flush of a commit that updates card row c and inserts transaction t
\* goes through only if the store accepts both rows.
FlushUnchecked(c, t) == TRUE

FlushOk(c, t) == CardConstraints(c) /\ TransactionConstraints(t)

\* '; '.join(reasons)
RECURSIVE join(_)
join(reasons) ==
    IF Len(reasons) <= 1 THEN reasons
    ELSE <<Head(reasons), "; ">> \o join(Tail(reasons))

\* Transaction(...): the row a commit inserts; the id is fresh, the column
\* defaults give the receipt fields and created_at
Transaction(r, status, fraud_score, fraud_reason) ==
    [id |-> Len(txlog) + 1,
     card_id |-> r.card_id,
     amount |-> r.amount,
     merchant_name |-> r.merchant_name,
     status |-> status,
     fraud_score |-> fraud_score,
     fraud_reason |-> fraud_reason,
     receipt_path |-> "None",
     receipt_verified |-> FALSE,
     receipt_verified_at |-> -1,
     created_at |-> now]

\* LedgerService.create_card
create_card(spending_limit) ==
    [spending_limit |-> spending_limit, current_balance |-> 0, status |-> "ACTIVE"]

NoCard == [spending_limit |-> 0, current_balance |-> 0, status |-> "None"]
NoRequest == [card_id |-> "None", amount |-> 0, merchant_name |-> <<>>]
NoStart == [len |-> 0, balance |-> 0]
\* no call of VelocityRule.evaluate
NoFrame == [pc |-> "None", current_time |-> 0, cleaned |-> <<>>]

-----------------------------------------------------------------------------
(* LedgerService.process_transaction, one request thread p *)

\* `if fraud_result.blocked`
FraudGateOpen(result) == FALSE

FraudGate(result) == result.blocked

\* SELECT ... FOR UPDATE is granted only while no other database transaction
\* holds the row lock
NoRowLock(c) == TRUE

RowLockFree(c) == lock[c] = 0

\* `if card.status != CardStatus.ACTIVE` raises unless
NotCancelled(c) == c.status # "CANCELLED"

IsActive(c) == c.status = "ACTIVE"

\* `if amount > available`
NoRoomLeft(amount, c) == amount >= available_balance(c)

InsufficientFunds(amount, c) == amount > available_balance(c)

\* `if not fraud_result.passed`
AlwaysApproved(result) == "APPROVED"

CommitStatus(result) == IF ~result.passed THEN "FLAGGED" ELSE "APPROVED"

\* card.current_balance = card.current_balance + amount
ChargedTwice(c, amount) == c.current_balance + amount + amount

NewBalance(c, amount) == c.current_balance + amount

\* db.session.add(transaction); db.session.commit() on the decline path: the
\* row is durable before the error is raised, so the handler's rollback finds
\* nothing to discard
InsertRolledBack(log, t) == log

CommitInsert(log, t) == Append(log, t)

\* db.session.rollback() / commit() end the database transaction of p and
\* with it every row lock it holds
KeepLocks(p) == lock

ReleaseLocks(p) == [c \in DOMAIN lock |-> IF lock[c] = p THEN 0 ELSE lock[c]]

\* Phase 1: the fraud check, before any database access
Begin(p, r, custom) ==
    /\ pc[p] = "idle"
    /\ LET ctx == [amount |-> r.amount, merchant_name |-> r.merchant_name,
                   card_id |-> r.card_id, current_time |-> now,
                   custom |-> custom]
           chk == check_transaction(rules, ctx, recent)
       IN  /\ recent' = chk.recent
           /\ fraud_result' = [fraud_result EXCEPT ![p] = chk.result]
           /\ IF FraudGate(chk.result)
              THEN /\ pc' = [pc EXCEPT ![p] = "done"]
                   /\ outcome' = [outcome EXCEPT ![p] = "FraudDetectedError"]
              ELSE /\ pc' = [pc EXCEPT ![p] = "select"]
                   /\ UNCHANGED outcome
    /\ req' = [req EXCEPT ![p] = r]
    /\ start' = [start EXCEPT ![p] =
                    [len |-> Len(txlog),
                     balance |-> IF r.card_id \in DOMAIN cards
                                 THEN cards[r.card_id].current_balance ELSE 0]]
    /\ UNCHANGED <<cards, txlog, lock, rules, now, card, transaction, task, velocity>>

\* Phase 1 on request threads of one process, which share the engine and
\* interleave between the statements of VelocityRule.evaluate. The request is
\* one the amount and blacklist rules do not report and the rules are the
\* default ones, so the verdict is what the velocity rule makes of it.

\* check_transaction up to current_time = time.time() in the velocity rule
VelocityEnter(p, r) ==
    /\ pc[p] = "idle"
    /\ rules = DefaultRules
    /\ ~AmountThresholdEvaluate(r.amount, recent).violated
    /\ ~MerchantBlacklistEvaluate(r.merchant_name, recent).violated
    /\ pc' = [pc EXCEPT ![p] = "check"]
    /\ req' = [req EXCEPT ![p] = r]
    /\ start' = [start EXCEPT ![p] =
                    [len |-> Len(txlog),
                     balance |-> IF r.card_id \in DOMAIN cards
                                 THEN cards[r.card_id].current_balance ELSE 0]]
    /\ velocity' = [velocity EXCEPT ![p] =
                       [pc |-> "clean", current_time |-> now, cleaned |-> <<>>]]
    /\ UNCHANGED <<cards, txlog, lock, rules, recent, now, fraud_result, card,
                   transaction, outcome, task>>

\* [t for t in self._recent_transactions[card_id] if current_time - t < 60]
VelocityClean(p) ==
    /\ velocity[p].pc = "clean"
    /\ velocity' = [velocity EXCEPT ![p] =
          [@ EXCEPT !.pc = "store",
                    !.cleaned = SelectSeq(recent[req[p].card_id],
                          LAMBDA t : velocity[p].current_time - t
                                        < VelocityWindow)]]
    /\ UNCHANGED <<cards, txlog, lock, rules, recent, now, pc, req,
                   fraud_result, card, transaction, outcome, start, task>>

\* self._recent_transactions[card_id] = (that list)
VelocityStore(p) ==
    /\ velocity[p].pc = "store"
    /\ recent' = [recent EXCEPT ![req[p].card_id] = velocity[p].cleaned]
    /\ velocity' = [velocity EXCEPT ![p] = [@ EXCEPT !.pc = "len"]]
    /\ UNCHANGED <<cards, txlog, lock, rules, now, pc, req, fraud_result, card,
                   transaction, outcome, start, task>>

\* if len(self._recent_transactions[card_id]) >= self.max_tpm: return True,
\* reason; check_transaction adds the risk, weight 0.3, and returns
VelocityCheck(p) ==
    /\ velocity[p].pc = "len"
    /\ IF Len(recent[req[p].card_id]) >= VelocityCap
       THEN /\ velocity' = [velocity EXCEPT ![p] = [@ EXCEPT !.pc = "done"]]
            /\ fraud_result' = [fraud_result EXCEPT ![p] =
                  add_risk(NewFraudCheckResult, VelocityRule.weight,
                           "Too many transactions in short period")]
            /\ pc' = [pc EXCEPT ![p] = "select"]
       ELSE /\ velocity' = [velocity EXCEPT ![p] = [@ EXCEPT !.pc = "append"]]
            /\ UNCHANGED <<fraud_result, pc>>
    /\ UNCHANGED <<cards, txlog, lock, rules, recent, now, req, card,
                   transaction, outcome, start, task>>

\* self._recent_transactions[card_id].append(current_time); return False,
\* None; check_transaction returns the verdict as created
VelocityRecord(p) ==
    /\ velocity[p].pc = "append"
    /\ recent' = [recent EXCEPT ![req[p].card_id] =
                     Append(@, velocity[p].current_time)]
    /\ velocity' = [velocity EXCEPT ![p] = [@ EXCEPT !.pc = "done"]]
    /\ fraud_result' = [fraud_result EXCEPT ![p] = NewFraudCheckResult]
    /\ pc' = [pc EXCEPT ![p] = "select"]
    /\ UNCHANGED <<cards, txlog, lock, rules, now, req, card, transaction,
                   outcome, start, task>>

\* Phase 2: the SELECT ... FOR UPDATE finds and locks the row
SelectForUpdate(p) ==
    /\ pc[p] = "select"
    /\ req[p].card_id \in DOMAIN cards
    /\ RowLockFree(req[p].card_id)
    /\ lock' = [lock EXCEPT ![req[p].card_id] = p]
    /\ card' = [card EXCEPT ![p] = cards[req[p].card_id]]
    /\ pc' = [pc EXCEPT ![p] = "locked"]
    /\ UNCHANGED <<cards, txlog, rules, recent, now, req, fraud_result,
                   transaction, outcome, start, task, velocity>>

\* ... or finds no row: CardNotFoundError, rolled back and re-raised
CardNotFound(p) ==
    /\ pc[p] = "select"
    /\ req[p].card_id \notin DOMAIN cards
    /\ lock' = ReleaseLocks(p)
    /\ pc' = [pc EXCEPT ![p] = "done"]
    /\ outcome' = [outcome EXCEPT ![p] = "CardNotFoundError"]
    /\ UNCHANGED <<cards, txlog, rules, recent, now, req, fraud_result, card,
                   transaction, start, task, velocity>>

\* the card is not ACTIVE: CardFrozenError, rolled back and re-raised
CardFrozen(p) ==
    /\ pc[p] = "locked"
    /\ ~IsActive(card[p])
    /\ lock' = ReleaseLocks(p)
    /\ pc' = [pc EXCEPT ![p] = "done"]
    /\ outcome' = [outcome EXCEPT ![p] = "CardFrozenError"]
    /\ UNCHANGED <<cards, txlog, rules, recent, now, req, fraud_result, card,
                   transaction, start, task, velocity>>

\* fraud_reason of a DECLINED row:
\* 'Insufficient funds' if not fraud_result.reasons else '; '.join(...)
AlwaysInsufficientFunds(result) == <<"Insufficient funds">>

DeclineReason(result) ==
    IF result.reasons = <<>> THEN <<"Insufficient funds">>
    ELSE join(result.reasons)

\* amount > available: the DECLINED row is added and committed, which ends the
\* database transaction; the InsufficientFundsError is raised next
Decline(p) ==
    /\ pc[p] = "locked"
    /\ IsActive(card[p])
    /\ InsufficientFunds(req[p].amount, card[p])
    /\ LET t == Transaction(req[p], "DECLINED", fraud_result[p].score,
                            DeclineReason(fraud_result[p]))
       IN  /\ txlog' = CommitInsert(txlog, t)
           /\ transaction' = [transaction EXCEPT ![p] = t.id]
    /\ lock' = ReleaseLocks(p)
    /\ pc' = [pc EXCEPT ![p] = "raise"]
    /\ UNCHANGED <<cards, rules, recent, now, req, fraud_result, card, outcome,
                   start, task, velocity>>

\* the handler of the domain exceptions: rollback (nothing is pending any
\* more), then re-raise
RaiseInsufficientFunds(p) ==
    /\ pc[p] = "raise"
    /\ lock' = ReleaseLocks(p)
    /\ pc' = [pc EXCEPT ![p] = "done"]
    /\ outcome' = [outcome EXCEPT ![p] = "InsufficientFundsError"]
    /\ UNCHANGED <<cards, txlog, rules, recent, now, req, fraud_result, card,
                   transaction, start, task, velocity>>

\* Phase 3: balance update and transaction insert in one commit; a flush the
\* store rejects is an SQLAlchemyError: rollback, TransactionResult(success=False).
\* The commit expires the objects of the session, so the log line after it
\* (transaction.id, card.current_balance) reads both rows again, inside the
\* try block: with refreshed = FALSE that read fails, and the handler of
\* SQLAlchemyError rolls back (nothing is pending) and returns
\* TransactionResult(success=False).
Commit(p, refreshed) ==
    /\ pc[p] = "locked"
    /\ IsActive(card[p])
    /\ ~InsufficientFunds(req[p].amount, card[p])
    /\ LET c == req[p].card_id
           balance == NewBalance(card[p], req[p].amount)
           row == [cards[c] EXCEPT !.current_balance = balance]
           t == Transaction(req[p], CommitStatus(fraud_result[p]),
                            fraud_result[p].score,
                            IF fraud_result[p].reasons # <<>>
                            THEN join(fraud_result[p].reasons)
                            ELSE "None")
       IN  IF FlushOk(row, t)
           THEN /\ cards' = [cards EXCEPT ![c] = row]
                /\ txlog' = Append(txlog, t)
                /\ transaction' = [transaction EXCEPT ![p] = t.id]
                /\ outcome' = [outcome EXCEPT ![p] =
                                IF refreshed THEN "success"
                                ELSE "Database error"]
           ELSE /\ outcome' = [outcome EXCEPT ![p] = "Database error"]
                /\ UNCHANGED <<cards, txlog, transaction, task>>
    /\ lock' = ReleaseLocks(p)
    /\ pc' = [pc EXCEPT ![p] = "done"]
    /\ UNCHANGED <<rules, recent, now, req, fraud_result, card, start, task,
                   velocity>>

\* the store fails at the SELECT or at a commit (connection lost, deadlock
\* victim, ...): SQLAlchemyError, rollback, TransactionResult(success=False)
StorageFailure(p) ==
    /\ \/ pc[p] = "select"
       \/ pc[p] = "locked" /\ IsActive(card[p])
    /\ lock' = ReleaseLocks(p)
    /\ pc' = [pc EXCEPT ![p] = "done"]
    /\ outcome' = [outcome EXCEPT ![p] = "Database error"]
    /\ UNCHANGED <<cards, txlog, rules, recent, now, req, fraud_result, card,
                   transaction, start, task, velocity>>

\* any other exception raised inside the try block: rollback,
\* TransactionResult(success=False, error='Internal error: ...')
UnexpectedError(p) ==
    /\ \/ pc[p] = "select"
       \/ pc[p] = "locked" /\ IsActive(card[p])
    /\ lock' = ReleaseLocks(p)
    /\ pc' = [pc EXCEPT ![p] = "done"]
    /\ outcome' = [outcome EXCEPT ![p] = "Internal error"]
    /\ UNCHANGED <<cards, txlog, rules, recent, now, req, fraud_result, card,
                   transaction, start, task, velocity>>

\* time passes
Tick(t) ==
    /\ t > now
    /\ now' = t
    /\ UNCHANGED <<cards, txlog, lock, rules, recent, pc, req, fraud_result,
                   card, transaction, outcome, start, task, velocity>>

\* LedgerService.get_card_balance: a read of the row without a lock, or
\* CardNotFoundError; nothing is written
GetCardBalance(c) == UNCHANGED vars

-----------------------------------------------------------------------------
(* worker task match_receipt, one delivery w *)

OFFICE_SUPPLIES_INC ==
    <<"O","F","F","I","C","E","_","S","U","P","P","L","I","E","S","_","I","N","C">>

\* the simulated OCR of every receipt: merchant and amount ($149.99)
ocr_result == [merchant_name |-> OFFICE_SUPPLIES_INC, amount |-> 14999]

\* confidences in 1/1000000
HighConfidence == 950000
PartialConfidence == 700000
LowConfidence == 300000
\* `match_confidence >= 0.80`: the match is verified
VerifyThreshold == 800000
\* `best_confidence >= 0.70`: the best candidate is accepted
AcceptThreshold == 700000
\* timedelta(days=7), seconds
SearchWindow == 604800

Abs(x) == IF x < 0 THEN 0 - x ELSE x
Max(a, b) == IF a >= b THEN a ELSE b

\* abs(float(transaction.amount) - float(ocr_result['amount'])) < 1.0, amounts
\* in cents (the float difference of the amounts 1.00 apart, 148.99 and
\* 150.99, is exactly 1.0)
amount_match_inclusive(t) == Abs(t.amount - ocr_result.amount) <= 100

amount_match(t) == Abs(t.amount - ocr_result.amount) < 100

\* substring containment, either way, of the upper-cased merchant names
merchant_match(t) ==
    \/ Contains(upper(ocr_result.merchant_name), upper(t.merchant_name))
    \/ Contains(upper(t.merchant_name), upper(ocr_result.merchant_name))

\* match confidence against a given transaction
TargetConfidence(t) ==
    IF amount_match(t) /\ merchant_match(t) THEN HighConfidence
    ELSE IF amount_match(t) \/ merchant_match(t) THEN PartialConfidence
    ELSE LowConfidence

\* (amount_score * 0.6) + (merchant_score * 0.4) with amount_score =
\* max(0, 1 - amount_diff / 100): 60 per cent short of a $100.00 difference
SearchConfidence(t) ==
    60 * Max(0, 10000 - Abs(t.amount - ocr_result.amount))
        + (IF merchant_match(t) THEN 400000 ELSE 0)

\* every row, whatever its age, status and receipt
AllRows == DOMAIN txlog

\* the rows the open search reads
Candidates ==
    {i \in DOMAIN txlog :
        /\ txlog[i].created_at >= now - SearchWindow
        /\ txlog[i].status \in {"APPROVED", "FLAGGED"}
        /\ txlog[i].receipt_verified = FALSE}

\* the loop keeps the first candidate of strictly greater confidence, from
\* 0.0 on; the query has no ORDER BY, so any candidate of the greatest
\* confidence can be the one kept
BestMatches ==
    {i \in Candidates :
        /\ SearchConfidence(txlog[i]) > 0
        /\ \A j \in Candidates :
              SearchConfidence(txlog[j]) <= SearchConfidence(txlog[i])}

\* LedgerService.verify_transaction_receipt on the loaded object
VerifyAnyStatus(t, verified) ==
    [t EXCEPT !.receipt_verified = verified,
              !.receipt_verified_at = IF verified THEN now ELSE -1,
              !.status = IF verified THEN "VERIFIED" ELSE @]

VerifiedUnstamped(t, verified) ==
    [t EXCEPT !.receipt_verified = verified,
              !.status = IF verified /\ @ = "APPROVED" THEN "VERIFIED" ELSE @]

verify_transaction_receipt(t, verified) ==
    [t EXCEPT !.receipt_verified = verified,
              !.receipt_verified_at = IF verified THEN now ELSE -1,
              !.status = IF verified /\ @ = "APPROVED" THEN "VERIFIED" ELSE @]

\* The UPDATE a commit flushes sets the columns whose value differs from the
\* loaded one, on the committed row, whatever that row holds by now.
Flush(committed, loaded, changed) ==
    [f \in DOMAIN committed |->
        IF changed[f] # loaded[f] THEN changed[f] ELSE committed[f]]

NoTransaction == [id |-> 0]
\* transaction_id=None
NoTransactionId == 0
NoResult == [status |-> "None"]
IdleTask ==
    [pc |-> "idle", transaction_id |-> NoTransactionId,
     loaded |-> NoTransaction, object |-> NoTransaction,
     match_confidence |-> 0, result |-> NoResult]

\* the dict match_receipt returns
Result(matched, confidence) ==
    [status |-> "success",
     match_found |-> matched # NoTransaction,
     match_confidence |-> confidence,
     matched_transaction_id |-> IF matched # NoTransaction THEN matched.id
                                ELSE 0,
     verified |-> confidence >= VerifyThreshold]

TaskUnchanged ==
    UNCHANGED <<cards, lock, rules, recent, now, pc, req, fraud_result, card,
                transaction, outcome, start, velocity>>

\* os.path.exists(receipt_path) is false: the task ends with an error result
ReceiptMissing(w) ==
    /\ task[w].pc = "idle"
    /\ task' = [task EXCEPT ![w] =
          [@ EXCEPT !.pc = "done", !.result = [status |-> "error"]]]
    /\ UNCHANGED txlog
    /\ TaskUnchanged

\* the task up to the end of its read, given a transaction id:
\* db.session.get(Transaction, transaction_id) and the confidence of the match
GetTransaction(w, receipt_path, transaction_id) ==
    /\ task[w].pc = "idle"
    /\ transaction_id # NoTransactionId
    /\ IF transaction_id \notin DOMAIN txlog
       THEN task' = [task EXCEPT ![w] =
                [@ EXCEPT !.pc = "done", !.transaction_id = transaction_id,
                          !.result = Result(NoTransaction, 0)]]
       ELSE LET t == txlog[transaction_id]
                confidence == TargetConfidence(t)
            IN  task' = [task EXCEPT ![w] =
                   IF confidence >= VerifyThreshold
                   THEN [@ EXCEPT !.pc = "verify",
                                  !.transaction_id = transaction_id,
                                  !.loaded = t, !.object = t,
                                  !.match_confidence = confidence]
                   ELSE [@ EXCEPT !.pc = "done",
                                  !.transaction_id = transaction_id,
                                  !.result = Result(t, confidence)]]
    /\ UNCHANGED txlog
    /\ TaskUnchanged

\* `if best_match and best_confidence >= 0.70`
AcceptAny(confidence) == TRUE

Accepted(confidence) == confidence >= AcceptThreshold

\* the task up to the end of its read, given no transaction id: the query,
\* the choice of the best candidate, and the receipt path set on it (a change
\* of the session, flushed by the next commit if there is one)
Query(w, receipt_path) ==
    /\ task[w].pc = "idle"
    /\ IF BestMatches = {}
       THEN task' = [task EXCEPT ![w] =
                [@ EXCEPT !.pc = "done", !.result = Result(NoTransaction, 0)]]
       ELSE \E i \in BestMatches :
              LET t == txlog[i]
                  confidence == SearchConfidence(t)
                  linked == [t EXCEPT !.receipt_path = receipt_path]
              IN  task' = [task EXCEPT ![w] =
                     IF ~Accepted(confidence)
                     THEN [@ EXCEPT !.pc = "done",
                                    !.result = Result(NoTransaction, 0)]
                     ELSE IF confidence >= VerifyThreshold
                     THEN [@ EXCEPT !.pc = "verify", !.loaded = t,
                                    !.object = linked,
                                    !.match_confidence = confidence]
                     ELSE [@ EXCEPT !.pc = "done",
                                    !.result = Result(linked, confidence)]]
    /\ UNCHANGED txlog
    /\ TaskUnchanged

\* ledger_service.verify_transaction_receipt(..., verified=True): the object
\* is the one already in the session; its changes are committed
VerifyCommit(w) ==
    /\ task[w].pc = "verify"
    /\ LET id == task[w].object.id
           changed == verify_transaction_receipt(task[w].object, TRUE)
       IN  /\ txlog' = [txlog EXCEPT ![id] = Flush(@, task[w].loaded, changed)]
           /\ task' = [task EXCEPT ![w] =
                  [IdleTask EXCEPT !.pc = "done",
                       !.transaction_id = task[w].transaction_id,
                       !.result = Result(changed, task[w].match_confidence)]]
    /\ TaskUnchanged

\* the store fails during the read or the commit: the exception is caught and
\* logged, and the result is built from the locals as they are
TaskStorageFailure(w) ==
    /\ task[w].pc \in {"idle", "verify"}
    /\ task' = [task EXCEPT ![w] =
          [IdleTask EXCEPT !.pc = "done",
               !.transaction_id = task[w].transaction_id,
               !.result = Result(task[w].object, task[w].match_confidence)]]
    /\ UNCHANGED txlog
    /\ TaskUnchanged

\* the store fails during the commit and is still failing when the result is
\* built: the rollback has expired the matched object, reading its id reloads
\* it, and that exception leaves the task
TaskStorageError(w) ==
    /\ task[w].pc = "verify"
    /\ task' = [task EXCEPT ![w] =
          [IdleTask EXCEPT !.pc = "raised",
               !.transaction_id = task[w].transaction_id,
               !.result = [status |-> "raised"]]]
    /\ UNCHANGED txlog
    /\ TaskUnchanged

\* LedgerService.update_transaction_receipt on the loaded object
ReplaceTransaction(t, receipt_path) ==
    [t EXCEPT !.receipt_path = receipt_path, !.fraud_score = 0,
              !.merchant_name = <<>>]

update_transaction_receipt(t, receipt_path) ==
    [t EXCEPT !.receipt_path = receipt_path]

\* the receipt upload: update_transaction_receipt loads the row, sets the
\* path and commits; an unknown id raises ValueError and changes nothing
UpdateReceipt(transaction_id, receipt_path) ==
    /\ transaction_id \in DOMAIN txlog
    /\ LET t == txlog[transaction_id]
       IN  txlog' = [txlog EXCEPT ![transaction_id] =
                        Flush(@, t, update_transaction_receipt(t, receipt_path))]
    /\ UNCHANGED task
    /\ TaskUnchanged

-----------------------------------------------------------------------------
(* Inputs *)

ACME == <<"A","C","M","E">>
fraud_corp == <<" ","f","r","a","u","d","_","c","o","r","p"," ">>

CardIds == {"c1", "c2", "c3", "c4"}
AllCardIds == CardIds \cup {"missing"}

Request(card_id, amount, merchant_name) ==
    [card_id |-> card_id, amount |-> amount, merchant_name |-> merchant_name]

\* The requests of the ledger specification, amounts in cents: $100.00 and
\* the fraud ceiling $5000.00 on the ACTIVE cards, a non-positive amount, one
\* cent over the ceiling, a blacklisted merchant, the FROZEN card with and
\* without a blacklisted merchant, the CANCELLED card, an unknown card.
LedgerRequests ==
    {Request("c1", 10000, ACME), Request("c1", 500000, ACME),
     Request("c1", -1, ACME), Request("c1", 500001, ACME),
     Request("c1", 10000, fraud_corp),
     Request("c2", 10000, ACME), Request("c2", 500000, ACME),
     Request("c3", 10000, ACME), Request("c3", 10000, fraud_corp),
     Request("c4", 10000, ACME),
     Request("missing", 10000, ACME)}

Times == {0, 60}

\* what an added rule's evaluate() may do: return (False, None), return
\* (True, reason), or raise
CustomOutcomes(rs) ==
    IF \E i \in DOMAIN rs : rs[i].name = "CUSTOM"
    THEN {"pass", "violated", "raise"} ELSE {"pass"}

RuleSets == {DefaultRules, add_rule(DefaultRules, CustomRule)}

Init ==
    /\ cards = [c \in CardIds |->
                  IF c = "c1" THEN create_card(510000)
                  ELSE IF c = "c2" THEN create_card(10000)
                  ELSE IF c = "c3"
                  THEN [create_card(10000) EXCEPT !.status = "FROZEN"]
                  ELSE [create_card(10000) EXCEPT !.status = "CANCELLED"]]
    /\ txlog = <<>>
    /\ lock = [c \in CardIds |-> 0]
    /\ rules \in RuleSets
    /\ recent = [c \in AllCardIds |-> <<>>]
    /\ now = 0
    /\ pc = [p \in Requests |-> "idle"]
    /\ req = [p \in Requests |-> NoRequest]
    /\ fraud_result = [p \in Requests |-> NewFraudCheckResult]
    /\ card = [p \in Requests |-> NoCard]
    /\ transaction = [p \in Requests |-> 0]
    /\ outcome = [p \in Requests |-> "None"]
    /\ start = [p \in Requests |-> NoStart]
    /\ task = [w \in Tasks |-> IdleTask]
    /\ velocity = [p \in Requests |-> NoFrame]

\* the steps of process_transaction after the fraud check
LedgerStep ==
    \/ \E p \in Requests : SelectForUpdate(p)
    \/ \E p \in Requests : CardNotFound(p)
    \/ \E p \in Requests : CardFrozen(p)
    \/ \E p \in Requests : Decline(p)
    \/ \E p \in Requests : RaiseInsufficientFunds(p)
    \/ \E p \in Requests : Commit(p, TRUE)
    \/ \E p \in Requests : StorageFailure(p)

(* The ledger: concurrent process_transaction calls *)
Next ==
    \/ \E p \in Requests, r \in LedgerRequests :
          \E custom \in CustomOutcomes(rules) : Begin(p, r, custom)
    \/ LedgerStep

Spec == Init /\ [][Next]_vars

\* the engine as configured at start-up
InitLive == Init /\ rules = DefaultRules

(* The ledger with every failure of the try block: of the store before, at *)
(* and after the commit, and unexpected errors *)

\* requests that are committed, declined on a contended row, or meet the
\* FROZEN card or no card
FailureRequests ==
    {Request("c1", 10000, ACME), Request("c2", 10000, ACME),
     Request("c2", 500000, ACME), Request("c3", 10000, ACME),
     Request("missing", 10000, ACME), Request("c1", 10000, fraud_corp)}

NextFailure ==
    \/ \E p \in Requests, r \in FailureRequests :
          \E custom \in CustomOutcomes(rules) : Begin(p, r, custom)
    \/ \E p \in Requests : SelectForUpdate(p)
    \/ \E p \in Requests : CardNotFound(p)
    \/ \E p \in Requests : CardFrozen(p)
    \/ \E p \in Requests : Decline(p)
    \/ \E p \in Requests : RaiseInsufficientFunds(p)
    \/ \E p \in Requests, refreshed \in BOOLEAN : Commit(p, refreshed)
    \/ \E p \in Requests : StorageFailure(p)
    \/ \E p \in Requests : UnexpectedError(p)

SpecFailure == InitLive /\ [][NextFailure]_vars

(* The ledger under a fair scheduler: a request thread that can take its *)
(* next step takes it; whether the store fails is left open *)

\* a step of request thread p other than a failure of the store
Attempt(p) ==
    \/ SelectForUpdate(p)
    \/ CardNotFound(p)
    \/ CardFrozen(p)
    \/ Decline(p)
    \/ RaiseInsufficientFunds(p)
    \/ Commit(p, TRUE)

\* requests that contend for the rows of c1 and c2, are declined, meet the
\* FROZEN card or no card, or are blocked
LiveRequests ==
    {Request("c2", 10000, ACME), Request("c2", 500000, ACME),
     Request("c3", 10000, ACME), Request("missing", 10000, ACME),
     Request("c1", 10000, fraud_corp)}


NextLive ==
    \/ \E p \in Requests, r \in LiveRequests :
          \E custom \in CustomOutcomes(rules) : Begin(p, r, custom)
    \/ LedgerStep

SpecLive ==
    /\ InitLive /\ [][NextLive]_vars
    /\ \A p \in Requests : WF_vars(Attempt(p))

(* The fraud engine: check_transaction, as called first by each *)
(* process_transaction, while time passes *)

FraudCorpShop == <<"F","r","a","u","d","_","C","o","r","p"," ","S","h","o","p">>
scam_enterprises ==
    <<"s","c","a","m","_","e","n","t","e","r","p","r","i","s","e","s">>
FRAUD_CORPORATE == <<"F","R","A","U","D"," ","C","O","R","P">>
FRAUD == <<"F","R","A","U","D">>

\* merchants that are a blacklisted term but for case and padding, that
\* contain one, that are only part of one or only resemble one, and a clean
\* one; amounts below, at and one cent over the ceiling
FraudRequests ==
    {Request("c1", a, m) :
        a \in {10000, 500000, 500001},
        m \in {ACME, fraud_corp, FraudCorpShop, scam_enterprises,
               FRAUD_CORPORATE, FRAUD}}
    \cup {Request("c2", 10000, ACME)}

FraudTimes == {59, 60}

NextFraud ==
    \/ \E p \in Requests, r \in FraudRequests :
          \E custom \in CustomOutcomes(rules) : Begin(p, r, custom)
    \/ \E t \in FraudTimes : Tick(t)

SpecFraud == Init /\ [][NextFraud]_vars

(* The fraud engine over rule lists of any order: check_transaction, as *)
(* called first by each process_transaction, after rules were added or the *)
(* list was rearranged *)

EngineRules ==
    {AmountThresholdRule, MerchantBlacklistRule, VelocityRule, BrokenRule,
     AlertRuleA, AlertRuleB}

\* no rule occurs twice in the list
Distinct(rs) == \A i, j \in DOMAIN rs : i # j => rs[i] # rs[j]

\* every list of one, two or three different rules, the default list among
\* them
EngineRuleLists ==
    {<<a>> : a \in EngineRules}
    \cup {rs \in EngineRules \X EngineRules : Distinct(rs)}
    \cup {rs \in EngineRules \X EngineRules \X EngineRules : Distinct(rs)}

\* a clean request, one over the ceiling to a blacklisted merchant, one to a
\* blacklisted merchant
EngineRequests ==
    {Request("c1", 10000, ACME), Request("c1", 500001, fraud_corp),
     Request("c1", 10000, fraud_corp)}

InitEngine ==
    /\ cards = [c \in CardIds |-> create_card(510000)]
    /\ txlog = <<>>
    /\ lock = [c \in CardIds |-> 0]
    /\ rules \in EngineRuleLists
    /\ recent = [c \in AllCardIds |-> <<>>]
    /\ now = 0
    /\ pc = [p \in Requests |-> "idle"]
    /\ req = [p \in Requests |-> NoRequest]
    /\ fraud_result = [p \in Requests |-> NewFraudCheckResult]
    /\ card = [p \in Requests |-> NoCard]
    /\ transaction = [p \in Requests |-> 0]
    /\ outcome = [p \in Requests |-> "None"]
    /\ start = [p \in Requests |-> NoStart]
    /\ task = [w \in Tasks |-> IdleTask]
    /\ velocity = [p \in Requests |-> NoFrame]

NextEngine ==
    \E p \in Requests, r \in EngineRequests :
        \E custom \in CustomOutcomes(rules) : Begin(p, r, custom)

SpecEngine == InitEngine /\ [][NextEngine]_vars

(* The velocity rule on request threads that interleave *)

VelocityRequests == {Request("c1", 10000, ACME), Request("c2", 10000, ACME)}

VelocityTimes == {1}

NextVelocity ==
    \/ \E p \in Requests, r \in VelocityRequests : VelocityEnter(p, r)
    \/ \E p \in Requests : VelocityClean(p)
    \/ \E p \in Requests : VelocityStore(p)
    \/ \E p \in Requests : VelocityCheck(p)
    \/ \E p \in Requests : VelocityRecord(p)
    \/ \E t \in VelocityTimes : Tick(t)

SpecVelocity == InitLive /\ [][NextVelocity]_vars

(* Reconciliation: match_receipt tasks beside process_transaction calls *)

\* requests whose transaction matches the receipt in amount and merchant, on
\* a card that can pay it and on one that cannot
ReconRequests ==
    {Request("c1", 14999, OFFICE_SUPPLIES_INC),
     Request("c2", 14999, OFFICE_SUPPLIES_INC)}

\* an id no row has: there are at most NumRequests rows
UnknownTransactionId == NumRequests + 1

\* transaction ids handed to the task: that of the first row and one no row has
TransactionIds == {1, UnknownTransactionId}

ReceiptPaths == {"receipt.jpg"}

\* the request threads that call process_transaction while the tasks run
ReconRequesters == 1..NumReconRequests

InitRecon == Init /\ rules = add_rule(DefaultRules, CustomRule)

NextRecon ==
    \/ \E p \in ReconRequesters, r \in ReconRequests :
          \E custom \in CustomOutcomes(rules) : Begin(p, r, custom)
    \/ \E p \in ReconRequesters : SelectForUpdate(p)
    \/ \E p \in ReconRequesters : Decline(p)
    \/ \E p \in ReconRequesters : RaiseInsufficientFunds(p)
    \/ \E p \in ReconRequesters : Commit(p, TRUE)
    \/ \E w \in Tasks : ReceiptMissing(w)
    \/ \E w \in Tasks, path \in ReceiptPaths, id \in TransactionIds :
          GetTransaction(w, path, id)
    \/ \E w \in Tasks, path \in ReceiptPaths : Query(w, path)
    \/ \E w \in Tasks : VerifyCommit(w)
    \/ \E w \in Tasks : TaskStorageFailure(w)

SpecRecon == InitRecon /\ [][NextRecon]_vars

(* Receipt uploads beside process_transaction calls and match_receipt tasks *)

\* the requests of SpecRecon and one the fraud engine blocks
UploadRequests ==
    ReconRequests \cup {Request("c1", 14999, fraud_corp)}

NextUpload ==
    \/ \E p \in ReconRequesters, r \in UploadRequests :
          \E custom \in CustomOutcomes(rules) : Begin(p, r, custom)
    \/ \E p \in ReconRequesters : SelectForUpdate(p)
    \/ \E p \in ReconRequesters : Decline(p)
    \/ \E p \in ReconRequesters : RaiseInsufficientFunds(p)
    \/ \E p \in ReconRequesters : Commit(p, TRUE)
    \/ \E w \in Tasks, path \in ReceiptPaths, id \in TransactionIds :
          GetTransaction(w, path, id)
    \/ \E w \in Tasks, path \in ReceiptPaths : Query(w, path)
    \/ \E w \in Tasks : VerifyCommit(w)
    \/ \E id \in TransactionIds, path \in ReceiptPaths : UpdateReceipt(id, path)
    \/ \E c \in AllCardIds : GetCardBalance(c)

SpecUpload == InitRecon /\ [][NextUpload]_vars

(* Redelivery: match_receipt tasks given the same input, one after another *)
(* or at once, while time passes *)

\* requests whose transactions all match the receipt
RetryRequests == {Request("c1", 14999, OFFICE_SUPPLIES_INC)}

\* a later time, within the search window of a row created at 0
RetryTimes == {1}

NextRetry ==
    \/ \E p \in Requests, r \in RetryRequests :
          \E custom \in CustomOutcomes(rules) : Begin(p, r, custom)
    \/ \E p \in Requests : SelectForUpdate(p)
    \/ \E p \in Requests : Commit(p, TRUE)
    \/ \E w \in Tasks, path \in ReceiptPaths, id \in TransactionIds :
          GetTransaction(w, path, id)
    \/ \E w \in Tasks, path \in ReceiptPaths : Query(w, path)
    \/ \E w \in Tasks : VerifyCommit(w)
    \/ \E t \in RetryTimes : Tick(t)

SpecRetry == InitRecon /\ [][NextRetry]_vars

(* Open search: match_receipt given no transaction id, over the tables *)
(* that earlier process_transaction calls and match_receipt tasks can have *)
(* left: transactions of several amounts, merchants, statuses and ages *)

\* the row an earlier call has left, and an earlier task if it is verified
SearchRow(amount, merchant_name, status, receipt_verified) ==
    [id |-> 0,
     card_id |-> IF status = "DECLINED" THEN "c2" ELSE "c1",
     amount |-> amount,
     merchant_name |-> merchant_name,
     status |-> status,
     fraud_score |-> IF status = "FLAGGED" THEN CustomRule.weight ELSE 0,
     fraud_reason |-> IF status = "FLAGGED" THEN <<"custom rule violated">>
                      ELSE IF status = "DECLINED" THEN <<"Insufficient funds">>
                      ELSE "None",
     receipt_path |-> IF receipt_verified THEN "receipt.jpg" ELSE "None",
     receipt_verified |-> receipt_verified,
     receipt_verified_at |-> IF receipt_verified THEN 0 ELSE -1,
     created_at |-> 0]

\* the receipt's amount $149.99, $25.00 more and $50.00 more with the
\* receipt's merchant, APPROVED or FLAGGED; the receipt's amount with another
\* merchant; the receipt's amount and merchant DECLINED (on the card that
\* cannot pay it), VERIFIED by an earlier task, and FLAGGED and verified by
\* an earlier task
SearchRows ==
    {SearchRow(a, OFFICE_SUPPLIES_INC, st, FALSE) :
        a \in {14999, 19999}, st \in {"APPROVED", "FLAGGED"}}
    \cup {SearchRow(17499, OFFICE_SUPPLIES_INC, "APPROVED", FALSE),
          SearchRow(14999, ACME, "APPROVED", FALSE),
          SearchRow(14999, OFFICE_SUPPLIES_INC, "DECLINED", FALSE),
          SearchRow(14999, OFFICE_SUPPLIES_INC, "VERIFIED", TRUE),
          SearchRow(14999, OFFICE_SUPPLIES_INC, "FLAGGED", TRUE)}

\* the calls were made a minute apart, the first at time 0: row k is given
\* its id and the time of its call (a verified row the time of its task)
Stamp(rows) ==
    [k \in DOMAIN rows |->
        [rows[k] EXCEPT !.id = k,
                        !.created_at = VelocityWindow * (k - 1),
                        !.receipt_verified_at =
                            IF rows[k].receipt_verified
                            THEN VelocityWindow * (k - 1) ELSE -1]]

\* the tables of no, one and two rows
SearchTables ==
    {<<>>} \cup {Stamp(<<a>>) : a \in SearchRows}
    \cup {Stamp(rows) : rows \in SearchRows \X SearchRows}

\* what the calls have charged to card c
Charged(log, c) ==
    LET charges == SelectSeq(log, LAMBDA t : t.card_id = c /\ t.status # "DECLINED")
    IN  IF charges = <<>> THEN 0
        ELSE IF Len(charges) = 1 THEN charges[1].amount
        ELSE charges[1].amount + charges[2].amount

\* the time of the last call on card c, as the velocity rule has recorded it
LastCall(log, c) ==
    LET calls == SelectSeq(log, LAMBDA t : t.card_id = c)
    IN  IF calls = <<>> THEN <<>> ELSE <<calls[Len(calls)].created_at>>

\* seven days after time 0 to the second, when the second row is a minute
\* old, and a minute later, when the first row is a minute too old
SearchTimes == {SearchWindow, SearchWindow + VelocityWindow}

\* the store and the engine after the calls that left one of the tables, at
\* one of the times, before any task has started
StoreAfter(tables, times) ==
    /\ txlog \in tables
    /\ cards = [c \in CardIds |->
                  IF c = "c1"
                  THEN [create_card(510000) EXCEPT
                           !.current_balance = Charged(txlog, c)]
                  ELSE IF c = "c2" THEN create_card(10000)
                  ELSE IF c = "c3"
                  THEN [create_card(10000) EXCEPT !.status = "FROZEN"]
                  ELSE [create_card(10000) EXCEPT !.status = "CANCELLED"]]
    /\ lock = [c \in CardIds |-> 0]
    /\ rules = add_rule(DefaultRules, CustomRule)
    /\ recent = [c \in AllCardIds |-> LastCall(txlog, c)]
    /\ now \in times
    /\ pc = [p \in Requests |-> "idle"]
    /\ req = [p \in Requests |-> NoRequest]
    /\ fraud_result = [p \in Requests |-> NewFraudCheckResult]
    /\ card = [p \in Requests |-> NoCard]
    /\ transaction = [p \in Requests |-> 0]
    /\ outcome = [p \in Requests |-> "None"]
    /\ start = [p \in Requests |-> NoStart]
    /\ task = [w \in Tasks |-> IdleTask]
    /\ velocity = [p \in Requests |-> NoFrame]

InitSearch == StoreAfter(SearchTables, SearchTimes)

NextSearch ==
    \/ \E w \in Tasks, path \in ReceiptPaths : Query(w, path)
    \/ \E w \in Tasks : VerifyCommit(w)

SpecSearch == InitSearch /\ [][NextSearch]_vars

(* Open search over amounts at the edges of acceptance and of verification *)

\* differences of $33.33, $33.34, $50.00 and $50.01
ScoreDifferences == {0, 3333, 3334, 5000, 5001}

\* APPROVED rows whose amount is the receipt's or differs from it by one of
\* these, up or down, with the receipt's merchant and with another
ScoreRows ==
    {SearchRow(ocr_result.amount + d, m, "APPROVED", FALSE) :
        d \in ScoreDifferences, m \in {OFFICE_SUPPLIES_INC, ACME}}
    \cup {SearchRow(ocr_result.amount - d, m, "APPROVED", FALSE) :
        d \in ScoreDifferences, m \in {OFFICE_SUPPLIES_INC, ACME}}

\* the tables of one and two rows
ScoreTables ==
    {Stamp(<<a>>) : a \in ScoreRows}
    \cup {Stamp(rows) : rows \in ScoreRows \X ScoreRows}

InitScore == StoreAfter(ScoreTables, {SearchWindow})

NextScore ==
    \/ \E w \in Tasks, path \in ReceiptPaths : Query(w, path)
    \/ \E w \in Tasks : VerifyCommit(w)

SpecScore == InitScore /\ [][NextScore]_vars

(* Conservation: process_transaction calls, approved, flagged and declined, *)
(* beside match_receipt tasks in both modes *)

\* the task that processes the receipt beside the calls
ConserveTasks == {1}

NextConserve ==
    \/ \E p \in Requests, r \in ReconRequests :
          \E custom \in CustomOutcomes(rules) : Begin(p, r, custom)
    \/ \E p \in Requests : SelectForUpdate(p)
    \/ \E p \in Requests : Decline(p)
    \/ \E p \in Requests : RaiseInsufficientFunds(p)
    \/ \E p \in Requests : Commit(p, TRUE)
    \/ \E p \in Requests : StorageFailure(p)
    \/ \E w \in ConserveTasks, path \in ReceiptPaths, id \in TransactionIds :
          GetTransaction(w, path, id)
    \/ \E w \in ConserveTasks, path \in ReceiptPaths : Query(w, path)
    \/ \E w \in ConserveTasks : VerifyCommit(w)

SpecConserve == InitRecon /\ [][NextConserve]_vars

(* Both modes of match_receipt over the same tables, with failures of the *)
(* store during the read and during the verification commit *)

NextTasks ==
    \/ \E w \in Tasks, path \in ReceiptPaths, id \in TransactionIds :
          GetTransaction(w, path, id)
    \/ \E w \in Tasks, path \in ReceiptPaths : Query(w, path)
    \/ \E w \in Tasks : VerifyCommit(w)
    \/ \E w \in Tasks : TaskStorageFailure(w)
    \/ \E w \in Tasks : TaskStorageError(w)

SpecTasks == InitSearch /\ [][NextTasks]_vars

(* Targeted matching: match_receipt given the id of a transaction whose *)
(* amount and merchant match the receipt, nearly match it, or do not *)

Office == <<"O","f","f","i","c","e">>
Office_Supplies_Inc_Ltd ==
    <<"O","f","f","i","c","e","_","S","u","p","p","l","i","e","s","_","I","n","c",
      " ","L","t","d">>

\* amounts equal to the receipt's $149.99, 99 cents and exactly $1.00 above
\* it, and exactly $1.00 below it; merchants contained in the receipt's,
\* containing it, and unrelated
MatchRequests ==
    {Request("c1", a, m) :
        a \in {14999, 15098, 15099, 14899},
        m \in {Office, Office_Supplies_Inc_Ltd, ACME}}

InitMatch == Init /\ rules = DefaultRules

NextMatch ==
    \/ \E p \in ReconRequesters, r \in MatchRequests :
          \E custom \in CustomOutcomes(rules) : Begin(p, r, custom)
    \/ \E p \in ReconRequesters : SelectForUpdate(p)
    \/ \E p \in ReconRequesters : Commit(p, TRUE)
    \/ \E w \in Tasks, path \in ReceiptPaths, id \in TransactionIds :
          GetTransaction(w, path, id)
    \/ \E w \in Tasks : VerifyCommit(w)

SpecMatch == InitMatch /\ [][NextMatch]_vars

-----------------------------------------------------------------------------
(* Properties of the ledger *)

Finished(p) == pc[p] = "done"
\* TransactionResult(success=False): the errors the handlers return
FailureResults == {"Database error", "Internal error"}
StoreFailed(p) == outcome[p] \in FailureResults
Unblocked(p) == pc[p] # "idle" /\ ~fraud_result[p].blocked
OnCard(p) == req[p].card_id \in DOMAIN cards
HoldsLock(p) == \E c \in DOMAIN lock : lock[c] = p
HasTransaction(p) == transaction[p] \in 1..Len(txlog)

\* C1: in every committed state each card has 0 <= current_balance <=
\* spending_limit, and the available balance reported for it is
\* spending_limit - current_balance, itself within 0..spending_limit.
C1_BalanceWithinLimit ==
    \A c \in DOMAIN cards :
        /\ 0 <= cards[c].current_balance
        /\ cards[c].current_balance <= cards[c].spending_limit
        /\ available_balance(cards[c]) + cards[c].current_balance
              = cards[c].spending_limit
        /\ available_balance(cards[c]) \in 0..cards[c].spending_limit

\* a card filled exactly to its limit, and an attempt with a non-positive
\* amount that the store refused
C1_Witness ==
    /\ \E c \in DOMAIN cards :
          cards[c].current_balance = cards[c].spending_limit
    /\ \E p \in Requests :
          Finished(p) /\ req[p].amount < 0 /\ StoreFailed(p) /\ card[p] # NoCard

\* Two attempts p, q of the same amount on the same ACTIVE card that began on
\* the same committed state, with amount <= available < 2 * amount, both over
\* without a store failure, theirs being the only rows added since.
C2_Race(p, q) ==
    /\ p # q /\ Finished(p) /\ Finished(q)
    /\ Unblocked(p) /\ Unblocked(q)
    /\ ~StoreFailed(p) /\ ~StoreFailed(q)
    /\ req[p].card_id = req[q].card_id /\ OnCard(p)
    /\ cards[req[p].card_id].status = "ACTIVE"
    /\ req[p].amount = req[q].amount
    /\ start[p] = start[q]
    /\ LET available == cards[req[p].card_id].spending_limit - start[p].balance
       IN  req[p].amount <= available /\ available < 2 * req[p].amount
    /\ Len(txlog) = start[p].len + 2

\* C2: of two such concurrent attempts exactly one commits (its transaction is
\* APPROVED or FLAGGED) and the other ends with InsufficientFundsError with a
\* DECLINED transaction recorded; the balance has grown by the amount once.
C2_ExactlyOneCommits ==
    \A p, q \in Requests :
        C2_Race(p, q) =>
            /\ HasTransaction(p) /\ HasTransaction(q)
            /\ transaction[p] # transaction[q]
            /\ cards[req[p].card_id].current_balance
                  = start[p].balance + req[p].amount
            /\ \E w \in {p, q} : \E l \in {p, q} \ {w} :
                  /\ outcome[w] = "success"
                  /\ txlog[transaction[w]].status \in {"APPROVED", "FLAGGED"}
                  /\ outcome[l] = "InsufficientFundsError"
                  /\ txlog[transaction[l]].status = "DECLINED"

C2_Witness ==
    \E p, q \in Requests :
        /\ C2_Race(p, q)
        /\ outcome[p] = "success"
        /\ outcome[q] = "InsufficientFundsError"

\* C3: while an attempt holds the row it read under the lock, that row is the
\* committed row (no other attempt commits on the card in between), it alone
\* holds the card's lock, and its commit sets the balance to the committed
\* balance plus its amount (no update is lost).
C3_Linearized ==
    /\ [](\A p \in Requests :
            pc[p] = "locked" =>
                /\ lock[req[p].card_id] = p
                /\ card[p] = cards[req[p].card_id])
    /\ [][\A p \in Requests :
            (pc[p] = "locked" /\ outcome'[p] = "success") =>
                cards'[req[p].card_id].current_balance
                    = cards[req[p].card_id].current_balance + req[p].amount]_vars

\* an attempt holds the row while another waits for the same card
C3_Witness ==
    \E p, q \in Requests :
        /\ pc[p] = "locked" /\ pc[q] = "select"
        /\ req[p].card_id = req[q].card_id

\* C4: an attempt whose verdict is blocked is over at once with
\* FraudDetectedError: it never asks for the lock or reads the card, creates
\* no transaction, and the step that rejects it changes no table and no lock.
C4_BlockedBeforeLock ==
    /\ [](\A p \in Requests :
            (pc[p] # "idle" /\ fraud_result[p].blocked) =>
                /\ Finished(p)
                /\ outcome[p] = "FraudDetectedError"
                /\ ~fraud_result[p].passed
                /\ transaction[p] = 0
                /\ card[p] = NoCard
                /\ ~HoldsLock(p))
    /\ [][\A p \in Requests :
            (pc[p] = "idle" /\ fraud_result'[p].blocked) =>
                /\ txlog' = txlog
                /\ cards' = cards
                /\ lock' = lock]_vars

\* an attempt over the amount ceiling on an ACTIVE card was blocked
C4_Witness ==
    \E p \in Requests :
        /\ Finished(p) /\ outcome[p] = "FraudDetectedError"
        /\ req[p].amount > max_amount
        /\ txlog = <<>>

\* the same letter, in either case
SameLetter(a, b) ==
    \/ a = b
    \/ \E k \in DOMAIN Lower : {a, b} = {Lower[k], Capital[k]}

\* term occurs in name, letter for letter, whatever the case
OccursIn(term, name) ==
    \E offset \in 0..(Len(name) - Len(term)) :
        \A k \in 1..Len(term) : SameLetter(term[k], name[offset + k])

Denylisted(name) == \E term \in MERCHANT_BLACKLIST : OccursIn(term, name)

\* the fraud check of request p has run
Checked(p) == pc[p] # "idle"

\* C5: with the default rules, an attempt whose amount is over the ceiling is
\* blocked (and not passed), so is one whose merchant name is or contains a
\* blacklisted term in any case, whatever its amount; one whose amount is the
\* ceiling and whose merchant matches no term is not blocked.
C5_BlockingRules ==
    \A p \in Requests :
        (Checked(p) /\ rules = DefaultRules) =>
            /\ req[p].amount > max_amount
                  => (fraud_result[p].blocked /\ ~fraud_result[p].passed)
            /\ Denylisted(req[p].merchant_name)
                  => (fraud_result[p].blocked /\ ~fraud_result[p].passed)
            /\ (req[p].amount = max_amount /\ ~Denylisted(req[p].merchant_name))
                  => ~fraud_result[p].blocked

\* a small amount to a merchant whose mixed-case name contains a term was
\* blocked, and the ceiling amount to a clean merchant was not
C5_Witness ==
    /\ rules = DefaultRules
    /\ \E p, q \in Requests :
          /\ Checked(p) /\ req[p].merchant_name = FraudCorpShop
          /\ req[p].amount < max_amount
          /\ fraud_result[p].blocked /\ ~fraud_result[p].passed
          /\ Checked(q) /\ req[q].merchant_name = ACME
          /\ req[q].amount = max_amount
          /\ ~fraud_result[q].blocked

\* C6: an attempt whose verdict is passed = false, blocked = false, on an
\* ACTIVE card with amount <= available, unless the store fails, raises the
\* balance by its amount and appends exactly one transaction, FLAGGED, with
\* the verdict's score and reasons.
C6_SoftFlagCommits ==
    [][\A p \in Requests :
          ( /\ pc[p] = "locked" /\ pc'[p] # "locked"
            /\ card[p].status = "ACTIVE"
            /\ ~fraud_result[p].passed /\ ~fraud_result[p].blocked
            /\ req[p].amount <= available_balance(card[p])
            /\ outcome'[p] \notin FailureResults )
          =>
          /\ outcome'[p] = "success"
          /\ cards'[req[p].card_id].current_balance
                = cards[req[p].card_id].current_balance + req[p].amount
          /\ Len(txlog') = Len(txlog) + 1
          /\ SubSeq(txlog', 1, Len(txlog)) = txlog
          /\ LET t == txlog'[Len(txlog')]
             IN  /\ t.status = "FLAGGED"
                 /\ t.card_id = req[p].card_id
                 /\ t.amount = req[p].amount
                 /\ t.fraud_score = fraud_result[p].score
                 /\ t.fraud_reason = join(fraud_result[p].reasons)
                 /\ transaction'[p] = t.id]_vars

C6_Witness ==
    \E p \in Requests :
        /\ Finished(p) /\ outcome[p] = "success"
        /\ ~fraud_result[p].passed /\ ~fraud_result[p].blocked
        /\ fraud_result[p].score >= FlagThreshold
        /\ HasTransaction(p)
        /\ txlog[transaction[p]].status = "FLAGGED"
        /\ cards[req[p].card_id].current_balance >= req[p].amount

\* C7 as stated: every attempt on a card that is not ACTIVE ends with
\* CardFrozenError, whatever the fraud outcome (store failures aside).
C7_FrozenAlwaysNotUsable ==
    \A p \in Requests :
        (Finished(p) /\ OnCard(p) /\ cards[req[p].card_id].status # "ACTIVE"
            /\ ~StoreFailed(p))
        => outcome[p] = "CardFrozenError"

\* C7, amended: an attempt on a FROZEN or CANCELLED card is always rejected
\* without a transaction: with CardFrozenError when the fraud engine did not
\* block it (passed or soft-flagged), with FraudDetectedError when it did;
\* the card's row stays as created.
C7_FrozenRejected ==
    \A p \in Requests :
        (Finished(p) /\ OnCard(p) /\ cards[req[p].card_id].status # "ACTIVE"
            /\ ~StoreFailed(p))
        => /\ outcome[p] = IF fraud_result[p].blocked
                           THEN "FraudDetectedError" ELSE "CardFrozenError"
           /\ transaction[p] = 0
           /\ cards[req[p].card_id].current_balance = 0
           /\ \A i \in DOMAIN txlog : txlog[i].card_id # req[p].card_id

\* a soft-flagged attempt on the FROZEN card was rejected with CardFrozenError
C7_Witness ==
    \E p \in Requests :
        /\ Finished(p) /\ OnCard(p)
        /\ cards[req[p].card_id].status = "FROZEN"
        /\ ~fraud_result[p].passed /\ ~fraud_result[p].blocked
        /\ outcome[p] = "CardFrozenError"

\* C8: an unblocked attempt on an ACTIVE card with amount > available, unless
\* the store fails, commits exactly one DECLINED transaction, leaves every
\* balance as it is and frees the lock; the InsufficientFundsError comes in a
\* later step, whose rollback removes nothing.
C8_DeclineIsDurable ==
    /\ [][\A p \in Requests :
            ( /\ pc[p] = "locked" /\ pc'[p] # "locked"
              /\ card[p].status = "ACTIVE"
              /\ req[p].amount > available_balance(card[p])
              /\ outcome'[p] \notin FailureResults )
            =>
            /\ pc'[p] = "raise" /\ outcome'[p] = "None"
            /\ Len(txlog') = Len(txlog) + 1
            /\ SubSeq(txlog', 1, Len(txlog)) = txlog
            /\ txlog'[Len(txlog')].status = "DECLINED"
            /\ txlog'[Len(txlog')].card_id = req[p].card_id
            /\ txlog'[Len(txlog')].amount = req[p].amount
            /\ transaction'[p] = txlog'[Len(txlog')].id
            /\ cards' = cards
            /\ lock'[req[p].card_id] = 0]_vars
    /\ [][\A p \in Requests :
            (pc[p] = "raise" /\ pc'[p] # "raise") =>
                /\ outcome'[p] = "InsufficientFundsError"
                /\ txlog' = txlog /\ cards' = cards
                /\ \A c \in DOMAIN lock : lock'[c] # p]_vars
    /\ [](\A p \in Requests :
            (pc[p] = "raise" \/ outcome[p] = "InsufficientFundsError") =>
                /\ HasTransaction(p)
                /\ txlog[transaction[p]].status = "DECLINED"
                /\ ~HoldsLock(p))

C8_Witness ==
    \E p \in Requests :
        /\ Finished(p) /\ outcome[p] = "InsufficientFundsError"
        /\ HasTransaction(p)
        /\ txlog[transaction[p]].status = "DECLINED"
        /\ txlog[transaction[p]].amount
              > available_balance(cards[req[p].card_id])

\* C9: an unblocked attempt on an unknown card ends with CardNotFoundError and
\* one on a card that is not ACTIVE with CardFrozenError (store failures
\* aside); neither creates a transaction, changes a table or holds a lock
\* once it is over.
C9_NotFoundNotUsable ==
    /\ [](\A p \in Requests :
            (Finished(p) /\ Unblocked(p) /\ ~StoreFailed(p)) =>
                /\ ~OnCard(p) => outcome[p] = "CardNotFoundError"
                /\ (OnCard(p) /\ cards[req[p].card_id].status # "ACTIVE")
                      => outcome[p] = "CardFrozenError"
                /\ outcome[p] \in {"CardNotFoundError", "CardFrozenError"}
                      => (transaction[p] = 0 /\ ~HoldsLock(p)))
    /\ [][\A p \in Requests :
            ( /\ outcome[p] = "None"
              /\ outcome'[p] \in {"CardNotFoundError", "CardFrozenError"} )
            => (txlog' = txlog /\ cards' = cards)]_vars

\* both errors have occurred, the second after the row was locked
C9_Witness ==
    \E p, q \in Requests :
        /\ outcome[p] = "CardNotFoundError"
        /\ outcome[q] = "CardFrozenError" /\ card[q].status = "CANCELLED"
        /\ ~HoldsLock(q)

\* C10: in every step of process_transaction calls and match_receipt tasks, no
\* row of transactions is removed, and a row whose status changes was
\* APPROVED and becomes VERIFIED; hence FLAGGED, DECLINED and VERIFIED rows
\* keep their status and a status changes at most once.
C10_StatusTransitions ==
    [][/\ Len(txlog') >= Len(txlog)
       /\ \A i \in DOMAIN txlog :
             /\ txlog'[i].id = txlog[i].id
             /\ txlog'[i].status # txlog[i].status
                   => (txlog[i].status = "APPROVED"
                         /\ txlog'[i].status = "VERIFIED")]_vars

\* two tasks have verified the same transaction, which is VERIFIED
C10_Witness ==
    \E i \in DOMAIN txlog :
        /\ txlog[i].status = "VERIFIED" /\ txlog[i].receipt_verified
        /\ \A w \in {1, 2} :
              /\ task[w].pc = "done" /\ task[w].result.status = "success"
              /\ task[w].result.verified
              /\ task[w].result.matched_transaction_id = i

Targeted(w) == task[w].transaction_id # NoTransactionId
OpenSearch(w) == task[w].pc # "idle" /\ task[w].transaction_id = NoTransactionId

\* C12 as stated: a targeted task that loaded its transaction as already
\* VERIFIED and receipt_verified (a second invocation, after the first one's
\* commit) changes no field of any transaction.
C12_SecondTargetedIsNoOp ==
    [][\A w \in Tasks :
          ( /\ Targeted(w) /\ task[w].pc = "verify"
            /\ task[w].loaded.status = "VERIFIED"
            /\ task[w].loaded.receipt_verified
            /\ task'[w].pc = "done" )
          => txlog' = txlog]_vars

\* C13 as stated: two open-search tasks given the same receipt that both
\* report a verified match have verified the same transaction.
C13_DuplicateSearchTolerated ==
    \A v, w \in Tasks :
        ( /\ OpenSearch(v) /\ task[v].pc = "done" /\ task[v].result.verified
          /\ OpenSearch(w) /\ task[w].pc = "done" /\ task[w].result.verified )
        => task[v].result.matched_transaction_id
              = task[w].result.matched_transaction_id

\* the amounts less than $1.00 from the receipt's
AmountClose(t) ==
    t.amount \in (ocr_result.amount - 99)..(ocr_result.amount + 99)

\* one merchant name occurs in the other, whatever the case
MerchantAlike(t) ==
    \/ OccursIn(t.merchant_name, ocr_result.merchant_name)
    \/ OccursIn(ocr_result.merchant_name, t.merchant_name)

ExpectedConfidence(t) ==
    IF AmountClose(t) /\ MerchantAlike(t) THEN 950000
    ELSE IF AmountClose(t) \/ MerchantAlike(t) THEN 700000
    ELSE 300000

\* C14: a targeted task that found its transaction reports confidence 0.95
\* when amount (less than $1.00 apart) and merchant (one name within the
\* other, whatever the case) both match, 0.70 when one does, 0.30 when none
\* does; while the store does not fail, the transaction is receipt_verified
\* once such a task is over exactly when the confidence is 0.95.
C14_TargetedConfidence ==
    \A w \in Tasks :
        ( /\ task[w].pc = "done" /\ Targeted(w)
          /\ task[w].result.status = "success"
          /\ task[w].result.match_found )
        => LET t == txlog[task[w].result.matched_transaction_id]
           IN  /\ t.id = task[w].transaction_id
               /\ task[w].result.match_confidence = ExpectedConfidence(t)
               /\ t.receipt_verified <=> ExpectedConfidence(t) = 950000
               /\ task[w].result.verified <=> ExpectedConfidence(t) = 950000

\* a transaction exactly $1.00 above the receipt, its merchant contained in
\* the receipt's: confidence 0.70, not verified
C14_Witness ==
    \E w \in Tasks :
        /\ task[w].pc = "done" /\ Targeted(w) /\ task[w].result.match_found
        /\ LET t == txlog[task[w].result.matched_transaction_id]
           IN  /\ t.amount = ocr_result.amount + 100
               /\ t.merchant_name = Office
               /\ task[w].result.match_confidence = 700000
               /\ ~t.receipt_verified

LocksHeld(p) == {c \in DOMAIN lock : lock[c] = p}

\* p is in process_transaction, past the fraud check
InProgress(p) == pc[p] \in {"select", "locked", "raise"}

\* C16: a request holds at most one row lock, and none while it asks for
\* one; whenever a request is in progress some request can take a step that
\* is not a failure of the store, and a request waiting for a lock waits for
\* one that is past its SELECT; under weak fairness every request that has
\* begun ends, and every lock taken is freed.
C16_NoDeadlock ==
    /\ [](\A p \in Requests :
            /\ Cardinality(LocksHeld(p)) <= 1
            /\ pc[p] \in {"idle", "select", "done"} => LocksHeld(p) = {}
            /\ pc[p] = "locked" => LocksHeld(p) = {req[p].card_id}
            /\ (pc[p] = "select" /\ OnCard(p) /\ lock[req[p].card_id] # 0)
                  => pc[lock[req[p].card_id]] = "locked")
    /\ []((\E p \in Requests : InProgress(p))
            => ENABLED (\E p \in Requests : Attempt(p)))
    /\ \A p \in Requests : InProgress(p) ~> Finished(p)
    /\ \A c \in CardIds : (lock[c] # 0) ~> (lock[c] = 0)

\* one request holds the lock of a row another request asks for
C16_Witness ==
    \E p, q \in Requests :
        /\ p # q /\ req[p].card_id = req[q].card_id
        /\ pc[p] = "select" /\ pc[q] = "locked"
        /\ lock[req[p].card_id] = q

\* C17: the fraud check runs while the request holds no lock and touches no
\* lock; a lock is taken only by the SELECT ... FOR UPDATE, after the check;
\* it is given up only by the holder's own commit or rollback, and a request
\* that has returned or raised, on whatever path, holds none.
C17_LockScope ==
    /\ [](\A p \in Requests :
            (pc[p] = "idle" \/ Finished(p)) => LocksHeld(p) = {})
    /\ [][\A p \in Requests :
            /\ (pc[p] = "idle" /\ pc'[p] # "idle") => lock' = lock
            /\ (LocksHeld(p) = {} /\ LocksHeld(p)' # {})
                  => /\ pc[p] = "select" /\ pc'[p] = "locked"
                     /\ fraud_result'[p] = fraud_result[p]
            /\ (LocksHeld(p) # {} /\ LocksHeld(p)' = {})
                  => /\ pc[p] = "locked" /\ pc'[p] \in {"raise", "done"}
            /\ (pc[p] = "locked" /\ pc'[p] # "locked")
                  => LocksHeld(p)' = {}]_vars

\* requests have left after taking the lock: one with an unexpected error,
\* one with CardFrozenError; no lock is held
C17_Witness ==
    \E p, q \in Requests :
        /\ Finished(p) /\ outcome[p] = "Internal error" /\ card[p] # NoCard
        /\ Finished(q) /\ outcome[q] = "CardFrozenError" /\ card[q] # NoCard
        /\ \A c \in DOMAIN lock : lock[c] = 0

\* C18 as stated: the step in which a request that has taken the lock ends
\* with a failed result leaves the cards and the transaction log as they
\* were, and the request without a lock.
C18_FailureLeavesNoTrace ==
    [][\A p \in Requests :
          ( /\ pc[p] = "locked" /\ pc'[p] = "done"
            /\ outcome'[p] \in FailureResults )
          => /\ txlog' = txlog /\ cards' = cards
             /\ LocksHeld(p)' = {}]_vars

\* C19: every card starts with balance 0; a step changes the balance of a
\* card only as the commit of a process_transaction on that card, which adds
\* the request's positive amount and appends one row, APPROVED or FLAGGED,
\* for that card and amount; spending limit and status of a card never
\* change. Declined and blocked attempts, tasks, uploads and balance reads
\* change no card.
C19_BalanceOnlyByCommit ==
    /\ \A c \in CardIds : cards[c].current_balance = 0
    /\ [][\A c \in CardIds :
            /\ cards'[c].spending_limit = cards[c].spending_limit
            /\ cards'[c].status = cards[c].status
            /\ cards'[c].current_balance # cards[c].current_balance
                  => \E p \in Requests :
                        /\ pc[p] = "locked" /\ pc'[p] = "done"
                        /\ req[p].card_id = c /\ req[p].amount > 0
                        /\ cards'[c].current_balance
                              = cards[c].current_balance + req[p].amount
                        /\ Len(txlog') = Len(txlog) + 1
                        /\ txlog'[Len(txlog')].card_id = c
                        /\ txlog'[Len(txlog')].amount = req[p].amount
                        /\ txlog'[Len(txlog')].status
                              \in {"APPROVED", "FLAGGED"}]_vars

\* one card has been charged once; the row has since got a receipt path and
\* been verified, and the balance is the row's amount
C19_Witness ==
    \E i \in DOMAIN txlog :
        /\ txlog[i].receipt_verified /\ txlog[i].receipt_path # "None"
        /\ cards[txlog[i].card_id].current_balance = txlog[i].amount
        /\ \A c \in CardIds \ {txlog[i].card_id} : cards[c].current_balance = 0

\* C20: the step a request takes with the lock of an ACTIVE card, unless it
\* ends with a failed result, declines (one DECLINED row, no card changed)
\* exactly when the amount is greater than the card's committed spending
\* limit less its committed balance, and otherwise commits, adding the amount
\* to the balance; an amount equal to what is available brings the balance
\* to the limit.
C20_DeclineIffOverAvailable ==
    [][\A p \in Requests :
          ( /\ pc[p] = "locked" /\ pc'[p] # "locked"
            /\ cards[req[p].card_id].status = "ACTIVE"
            /\ outcome'[p] \notin FailureResults )
          =>
          LET c == req[p].card_id
              available == cards[c].spending_limit - cards[c].current_balance
              last == txlog'[Len(txlog')]
          IN  /\ Len(txlog') = Len(txlog) + 1
              /\ last.card_id = c /\ last.amount = req[p].amount
              /\ IF req[p].amount > available
                 THEN /\ pc'[p] = "raise" /\ last.status = "DECLINED"
                      /\ cards' = cards
                 ELSE /\ pc'[p] = "done" /\ outcome'[p] = "success"
                      /\ last.status \in {"APPROVED", "FLAGGED"}
                      /\ cards'[c].current_balance
                            = cards[c].current_balance + req[p].amount
                      /\ req[p].amount = available
                            => cards'[c].current_balance
                                  = cards[c].spending_limit]_vars

\* a request for all that was available has been committed; the balance is
\* the limit
C20_Witness ==
    \E p \in Requests :
        /\ Finished(p) /\ outcome[p] = "success" /\ HasTransaction(p)
        /\ txlog[transaction[p]].status = "APPROVED"
        /\ start[p].balance + req[p].amount
              = cards[req[p].card_id].spending_limit
        /\ cards[req[p].card_id].current_balance
              = cards[req[p].card_id].spending_limit

\* request p takes a step
Steps(p) == pc'[p] # pc[p]

\* the step of p is the balance check and what follows from it, the store
\* not failing
BalanceChecked(p) ==
    /\ pc[p] = "locked" /\ IsActive(card[p])
    /\ outcome'[p] \notin FailureResults

C22_DeclinedCarriesVerdict ==
    \A i \in DOMAIN txlog :
        txlog[i].status = "DECLINED" =>
            \E p \in Requests :
                /\ transaction[p] = i
                /\ txlog[i].fraud_score = fraud_result[p].score
                /\ txlog[i].fraud_reason = <<"Insufficient funds">>
                      <=> fraud_result[p].reasons = <<>>
                /\ fraud_result[p].reasons # <<>>
                      => txlog[i].fraud_reason = join(fraud_result[p].reasons)

\* a call that the velocity rule reported was declined: the row carries the
\* verdict's score 0.3 and the velocity reason
C22_Witness ==
    \E p \in Requests :
        /\ Finished(p) /\ outcome[p] = "InsufficientFundsError"
        /\ fraud_result[p].reasons = <<"Too many transactions in short period">>
        /\ HasTransaction(p)
        /\ txlog[transaction[p]].status = "DECLINED"
        /\ txlog[transaction[p]].fraud_score = VelocityRule.weight
        /\ txlog[transaction[p]].fraud_reason
              = <<"Too many transactions in short period">>

-----------------------------------------------------------------------------
(* Properties of the fraud engine *)

\* request p calls check_transaction in this step
Calls(p) == pc[p] = "idle" /\ pc'[p] # "idle"

\* the arguments of that call
CallContext(p) ==
    [amount |-> req'[p].amount, merchant_name |-> req'[p].merchant_name,
     card_id |-> req'[p].card_id, current_time |-> now, custom |-> "pass"]

\* the rules of a list whose evaluate() returns
Returning(rs) == SelectSeq(rs, LAMBDA rule : rule.name # "BROKEN")

\* C23: a rule whose evaluate() raises is skipped: the verdict and the
\* velocity windows a call leaves are those of the same call on the list
\* without the raising rules (so the rules after a raising rule are
\* evaluated, in order), a list of raising rules alone gives the verdict
\* passed with score 0, and the call goes on to the SELECT unless the
\* verdict is blocked.
C23_RaisingRuleSkipped ==
    [][\A p \in Requests :
          Calls(p) =>
              LET chk == check_transaction(Returning(rules), CallContext(p),
                                           recent)
              IN  /\ fraud_result'[p] = chk.result
                  /\ recent' = chk.recent
                  /\ Returning(rules) = <<>>
                        => fraud_result'[p] = NewFraudCheckResult
                  /\ pc'[p] = IF fraud_result'[p].blocked THEN "done"
                              ELSE "select"
                  /\ outcome'[p] = IF fraud_result'[p].blocked
                                   THEN "FraudDetectedError" ELSE "None"]_vars

\* a raising rule of weight 1.0 came first: the call is not blocked, the
\* rule after it was evaluated and is the only one in the verdict
C23_Witness ==
    /\ rules = <<BrokenRule, AlertRuleA, VelocityRule>>
    /\ \E p \in Requests :
          /\ pc[p] = "select"
          /\ fraud_result[p].score = AlertRuleA.weight
          /\ fraud_result[p].reasons = <<"ALERT_A">>
          /\ fraud_result[p].passed /\ ~fraud_result[p].blocked
          /\ recent[req[p].card_id] # <<>>

\* whether the rule reports request r, at time t with the windows rec
Reported(rule, r, rec, t) ==
    CASE rule.name = "AMOUNT_THRESHOLD" -> r.amount > 500000
      [] rule.name = "MERCHANT_BLACKLIST" -> Denylisted(r.merchant_name)
      [] rule.name = "VELOCITY_CHECK" ->
            Cardinality({i \in DOMAIN rec[r.card_id] :
                            t - rec[r.card_id][i] < 60}) >= VelocityCap
      [] rule.name \in {"ALERT_A", "ALERT_B"} -> TRUE
      [] OTHER -> FALSE

\* the rules that are evaluated and report the request, from rule i on: the
\* evaluation ends with the first one of weight 1.0 or more
RECURSIVE Hits(_, _, _, _, _)
Hits(rs, i, r, rec, t) ==
    IF i > Len(rs) THEN <<>>
    ELSE IF ~Reported(rs[i], r, rec, t) THEN Hits(rs, i + 1, r, rec, t)
    ELSE IF rs[i].weight >= 10000 THEN <<rs[i]>>
    ELSE <<rs[i]>> \o Hits(rs, i + 1, r, rec, t)

RECURSIVE SumWeights(_)
SumWeights(rs) ==
    IF rs = <<>> THEN 0 ELSE Head(rs).weight + SumWeights(Tail(rs))

\* the reasons a rule gives
ReasonsOf(rule) ==
    CASE rule.name = "AMOUNT_THRESHOLD" -> {"exceeds maximum allowed"}
      [] rule.name = "MERCHANT_BLACKLIST" ->
            {"is on the blacklist", "matches blacklist pattern"}
      [] rule.name = "VELOCITY_CHECK" ->
            {"Too many transactions in short period"}
      [] OTHER -> {rule.name}

\* the place of the first rule of weight 1.0 or more that reports the
\* request, 0 when there is none
FirstCritical(rs, r, rec, t) ==
    LET critical == {i \in DOMAIN rs :
                        rs[i].weight >= 10000 /\ Reported(rs[i], r, rec, t)}
    IN  IF critical = {} THEN 0
        ELSE CHOOSE i \in critical : \A j \in critical : i <= j

\* C24: when some rule of weight 1.0 or more reports the request, the
\* verdict is blocked and not passed, and the verdict and the velocity
\* windows are those of the call on the list cut after the first such rule:
\* no later rule has run. With the default order a blocked call leaves
\* every velocity window as it was.
C24_CriticalRuleStops ==
    [][\A p \in Requests :
          Calls(p) =>
              LET k == FirstCritical(rules, req'[p], recent, now)
                  chk == check_transaction(SubSeq(rules, 1, k),
                                           CallContext(p), recent)
              IN  /\ k > 0 =>
                        /\ fraud_result'[p].blocked
                        /\ ~fraud_result'[p].passed
                        /\ fraud_result'[p] = chk.result
                        /\ recent' = chk.recent
                        /\ fraud_result'[p].reasons[Len(fraud_result'[p].reasons)]
                              \in ReasonsOf(rules[k])
                  /\ (k > 0 /\ rules = DefaultRules) => recent' = recent
                  /\ k = 0 => ~fraud_result'[p].blocked]_vars

\* with the default order, one call was blocked and one was not: the window
\* of the card holds the time of the second alone
C24_Witness ==
    /\ rules = DefaultRules
    /\ \E p, q \in Requests :
          /\ Finished(p) /\ fraud_result[p].blocked
          /\ req[p].amount > max_amount
          /\ pc[q] = "select" /\ req[q].card_id = req[p].card_id
          /\ Len(recent[req[p].card_id]) = 1

\* C25: the verdict of every call, whatever the rule list: the score is the
\* sum of the weights of the rules that were evaluated and reported the
\* request, capped at 1.0, and lies in 0..1.0; the reasons are those of these
\* rules, in the order of evaluation; passed is false exactly when the score
\* is 0.70 or more; a blocked verdict is not passed.
C25_VerdictShape ==
    [][\A p \in Requests :
          Calls(p) =>
              LET v == fraud_result'[p]
                  hits == Hits(rules, 1, req'[p], recent, now)
              IN  /\ v.score = Min(10000, SumWeights(hits))
                  /\ v.score \in 0..10000
                  /\ Len(v.reasons) = Len(hits)
                  /\ \A k \in DOMAIN hits : v.reasons[k] \in ReasonsOf(hits[k])
                  /\ v.passed <=> v.score < 7000
                  /\ v.blocked => ~v.passed]_vars

\* three rules of weights 0.3, 0.4 and 0.7 all reported a call: the score is
\* 1.0, the verdict is not passed and not blocked
C25_Witness ==
    /\ rules = <<VelocityRule, AlertRuleA, AlertRuleB>>
    /\ \E p \in Requests :
          /\ fraud_result[p].score = 10000
          /\ fraud_result[p].reasons
                = <<"Too many transactions in short period",
                    "ALERT_A", "ALERT_B">>
          /\ ~fraud_result[p].passed /\ ~fraud_result[p].blocked

\* the verdict holds the reason of the velocity rule
VelocityReported(result) ==
    \E k \in DOMAIN result.reasons :
        result.reasons[k] = "Too many transactions in short period"

\* the entries of a window at most 59 seconds old at time t, in their order
Fresh(window, t) == SelectSeq(window, LAMBDA e : e >= t - 59)

\* C26: calls made one after another. A call that reaches the velocity rule
\* (no critical rule before it reported the request) drops from the card's
\* window the entries 60 seconds old or older, is reported exactly when the
\* entries left are already as many as the cap, and adds the current time
\* exactly when it is not reported; no other window changes. Hence no window
\* ever holds more than cap entries, its entries are in time order, and a
\* call on a card whose window is full and whose oldest entry is less than
\* 60 seconds old is reported.
C26_VelocityWindow ==
    /\ [][\A p \in Requests :
            ( /\ Calls(p)
              /\ \E i \in DOMAIN rules : rules[i] = VelocityRule
              /\ req'[p].amount <= 500000
              /\ ~Denylisted(req'[p].merchant_name) )
            =>
            LET c == req'[p].card_id
                left == Fresh(recent[c], now)
                reported == VelocityReported(fraud_result'[p])
            IN  /\ reported <=> Len(left) >= VelocityCap
                /\ recent'[c] = IF reported THEN left ELSE Append(left, now)
                /\ \A d \in DOMAIN recent : d # c => recent'[d] = recent[d]
                /\ \A k \in DOMAIN recent'[c] : now - recent'[c][k] < 60
                /\ ( /\ Len(recent[c]) = VelocityCap
                     /\ now - recent[c][1] < 60 ) => reported]_vars
    /\ [](\A c \in DOMAIN recent :
            /\ Len(recent[c]) <= VelocityCap
            /\ \A j, k \in DOMAIN recent[c] :
                  j < k => recent[c][j] <= recent[c][k])

\* two calls on one card, neither reported: the entry of the first, made at
\* time 0, was dropped by the second at time 60, whose entry is the only one
C26_Witness ==
    \E p, q \in Requests :
        /\ p # q /\ Checked(p) /\ Checked(q)
        /\ req[p].card_id = req[q].card_id
        /\ ~fraud_result[p].blocked /\ ~fraud_result[q].blocked
        /\ ~VelocityReported(fraud_result[p])
        /\ ~VelocityReported(fraud_result[q])
        /\ recent[req[p].card_id] = <<60>>

\* the velocity rule has been evaluated for request p and did not report it
Recorded(p) ==
    velocity[p].pc = "done" /\ ~VelocityReported(fraud_result[p])

\* no evaluation is in progress
Quiet == \A p \in Requests : velocity[p].pc \in {"None", "done"}

\* C27 as stated: once the evaluations of the velocity rule that ran at the
\* same time are over, each one that did not report its request has its
\* timestamp in the card's window (no entry is 60 seconds old here), and
\* those within one window are no more than the cap.
C27_NoCountLost ==
    Quiet =>
        \A c \in DOMAIN recent :
            LET recorded == {p \in Requests : Recorded(p) /\ req[p].card_id = c}
            IN  /\ \A p \in recorded :
                      \E k \in DOMAIN recent[c] :
                          recent[c][k] = velocity[p].current_time
                /\ Len(recent[c]) >= Cardinality(recorded)
                /\ Cardinality(recorded) <= VelocityCap

\* p has the row of card c: it is past its SELECT ... FOR UPDATE and has not
\* yet committed or rolled back
HasRow(p, c) == pc[p] = "locked" /\ req[p].card_id = c

\* p asks for the row of a card that exists
AsksForRow(p) == pc[p] = "select" /\ OnCard(p)

\* C28: at any time at most one request is between its SELECT ... FOR UPDATE
\* and its commit or rollback on a given card, and it is the holder of the
\* card's lock; a request asking for a row is granted it exactly when no
\* other request has the row of the same card, whatever rows of other cards
\* are held; while it is not granted the row it stays where it is (it is
\* not rejected; only a failure of the store ends it).
C28_OneHolderPerCard ==
    /\ [](\A c \in CardIds :
            /\ Cardinality({p \in Requests : HasRow(p, c)}) <= 1
            /\ \A p \in Requests : HasRow(p, c) <=> lock[c] = p)
    /\ [](\A p \in Requests :
            AsksForRow(p) =>
                (ENABLED SelectForUpdate(p)
                    <=> \A q \in Requests \ {p} : ~HasRow(q, req[p].card_id)))
    /\ [][\A p \in Requests :
            ( /\ AsksForRow(p)
              /\ \E q \in Requests \ {p} : HasRow(q, req[p].card_id) )
            => \/ pc'[p] = "select" /\ outcome'[p] = "None"
               \/ pc'[p] = "done" /\ outcome'[p] = "Database error"]_vars

\* a request has committed on a card and a second one on the same card, begun
\* before that commit, now has the row with the balance the first one left
C28_Witness ==
    \E p, q \in Requests :
        /\ p # q /\ req[p].card_id = req[q].card_id
        /\ Finished(p) /\ outcome[p] = "success"
        /\ HasRow(q, req[q].card_id)
        /\ start[q].balance = 0
        /\ card[q].current_balance = req[p].amount

-----------------------------------------------------------------------------
(* Properties of the open search *)

\* created in the seven days up to now
InWindow(t) == now - t.created_at <= 7 * 24 * 3600

\* the rows a search may match
Eligible(t) ==
    /\ InWindow(t)
    /\ t.status \in {"APPROVED", "FLAGGED"}
    /\ ~t.receipt_verified

\* 0.6 * amount_score + 0.4 * merchant_score in 1/1000000, amounts in cents:
\* amount_score = max(0, 1 - |amount_diff| / 100)
Score(t) ==
    LET diff == IF t.amount >= 14999 THEN t.amount - 14999
                ELSE 14999 - t.amount
        amount_score == IF diff >= 10000 THEN 0 ELSE 10000 - diff
    IN  60 * amount_score + (IF MerchantAlike(t) THEN 400000 ELSE 0)

\* task w, searching, picks row i in this step
Picks(w, i) ==
    /\ task[w].pc = "idle" /\ task'[w].pc # "idle"
    /\ task'[w].transaction_id = NoTransactionId
    /\ \/ task'[w].pc = "verify" /\ task'[w].object.id = i
       \/ /\ task'[w].pc = "done" /\ task'[w].result.match_found
          /\ task'[w].result.matched_transaction_id = i

C30_PartialMatchLinked ==
    \A w \in Tasks :
        ( /\ task[w].pc = "done" /\ OpenSearch(w)
          /\ task[w].result.status = "success"
          /\ task[w].result.match_found
          /\ task[w].result.match_confidence >= 700000
          /\ task[w].result.match_confidence < 800000 )
        => LET t == txlog[task[w].result.matched_transaction_id]
           IN  /\ t.receipt_path \in ReceiptPaths
               /\ ~t.receipt_verified
               /\ t.receipt_verified_at = -1
               /\ t.status \in {"APPROVED", "FLAGGED"}

-----------------------------------------------------------------------------
(* Properties of match_receipt in both modes *)

\* task w starts in this step
Starts(w) == task[w].pc = "idle" /\ task'[w].pc # "idle"

\* what task w, starting in this step, is given has no acceptable match: the
\* id is that of no row, or no id is given and no row that may be matched
\* has a score of 0.70 or more
NoAcceptableMatch(w) ==
    IF task'[w].transaction_id # NoTransactionId
    THEN task'[w].transaction_id \notin DOMAIN txlog
    ELSE \A i \in DOMAIN txlog :
            Eligible(txlog[i]) => Score(txlog[i]) < 700000

\* C31: a task that is given the id of no row, or no id when no row that may
\* be matched scores 0.70 or more, is over in that step with the result
\* status success, match_found false, confidence 0, no transaction id and
\* verified false, and no row has changed.
C31_NoMatchChangesNothing ==
    [][\A w \in Tasks :
          (Starts(w) /\ NoAcceptableMatch(w)) =>
              /\ task'[w].pc = "done"
              /\ task'[w].result.status = "success"
              /\ ~task'[w].result.match_found
              /\ task'[w].result.match_confidence = 0
              /\ task'[w].result.matched_transaction_id = 0
              /\ ~task'[w].result.verified
              /\ txlog' = txlog]_vars

\* a search over a table whose only row has the receipt's amount and another
\* merchant (score 0.60) found no match, and so did a task given the id of
\* no row; the row has no receipt
C31_Witness ==
    /\ Len(txlog) = 1 /\ txlog[1].merchant_name = ACME
    /\ Eligible(txlog[1]) /\ txlog[1].receipt_path = "None"
    /\ \E v, w \in Tasks :
          /\ task[v].pc = "done" /\ OpenSearch(v)
          /\ task[v].result.status = "success" /\ ~task[v].result.match_found
          /\ task[w].pc = "done" /\ task[w].transaction_id = UnknownTransactionId
          /\ task[w].result.status = "success" /\ ~task[w].result.match_found

\* C32 as stated: a step of a task in which the store fails, during the read
\* or during the commit of the verification, ends either with the exception
\* leaving the task or with a result that reports no match and no
\* verification.
C32_FailureNeverReportedAsSuccess ==
    [][\A w \in Tasks :
          (TaskStorageFailure(w) \/ TaskStorageError(w)) =>
              \/ task'[w].pc = "raised"
              \/ /\ task'[w].pc = "done"
                 /\ ~task'[w].result.match_found
                 /\ ~task'[w].result.verified]_vars

\* C37 as stated: whenever a task has returned a result with verified true,
\* the committed row of the transaction the result names has
\* receipt_verified true, also when the store failed during the commit of
\* the verification.
C37_VerifiedResultIsCommitted ==
    \A w \in Tasks :
        ( /\ task[w].pc = "done" /\ task[w].result.status = "success"
          /\ task[w].result.verified )
        => /\ task[w].result.matched_transaction_id \in DOMAIN txlog
           /\ txlog[task[w].result.matched_transaction_id].receipt_verified

-----------------------------------------------------------------------------
(* Conservation *)

RECURSIVE Charges(_, _)
\* the sum of the amounts of the first n rows that are on card c and are
\* APPROVED, FLAGGED or VERIFIED
Charges(c, n) ==
    IF n = 0 THEN 0
    ELSE Charges(c, n - 1) +
         ( IF /\ txlog[n].card_id = c
              /\ txlog[n].status \in {"APPROVED", "FLAGGED", "VERIFIED"}
           THEN txlog[n].amount ELSE 0 )

\* C33: in every committed state the balance of each card is the sum of the
\* amounts of its APPROVED, FLAGGED and VERIFIED transactions; DECLINED
\* transactions add nothing.
C33_Conservation ==
    \A c \in CardIds : cards[c].current_balance = Charges(c, Len(txlog))

\* a card charged for its VERIFIED transaction, and a card with a DECLINED
\* transaction and no charge
C33_Witness ==
    /\ \E i, j \in DOMAIN txlog :
          /\ txlog[i].card_id = "c1" /\ txlog[i].status = "VERIFIED"
          /\ txlog[j].card_id = "c2" /\ txlog[j].status = "DECLINED"
    /\ cards["c1"].current_balance = 14999
    /\ cards["c2"].current_balance = 0

-----------------------------------------------------------------------------
(* The default rules *)

\* C34: with the default rules no verdict has passed false and blocked false,
\* no transaction is FLAGGED, and every transaction that is not DECLINED is
\* APPROVED with a risk score of 0 or 0.3.
C34_DefaultRulesNeverFlag ==
    rules = DefaultRules =>
        /\ \A p \in Requests : fraud_result[p].passed \/ fraud_result[p].blocked
        /\ \A i \in DOMAIN txlog :
              /\ txlog[i].status # "FLAGGED"
              /\ txlog[i].status # "DECLINED" =>
                    /\ txlog[i].status = "APPROVED"
                    /\ txlog[i].fraud_score \in {0, 3000}

\* under the default rules two calls were committed as APPROVED, the first
\* with score 0 and the second, reported by the velocity rule, with score 0.3
C34_Witness ==
    /\ rules = DefaultRules
    /\ \E i, j \in DOMAIN txlog :
          /\ txlog[i].status = "APPROVED" /\ txlog[i].fraud_score = 0
          /\ txlog[j].status = "APPROVED" /\ txlog[j].fraud_score = 3000

-----------------------------------------------------------------------------
(* Verified transactions *)

\* C35: a transaction with status VERIFIED has receipt_verified true and
\* receipt_verified_at set.
C35_VerifiedHasReceipt ==
    \A i \in DOMAIN txlog :
        txlog[i].status = "VERIFIED" =>
            /\ txlog[i].receipt_verified
            /\ txlog[i].receipt_verified_at # -1

\* a transaction is VERIFIED after a targeted task and an open search have
\* both committed its verification
C35_Witness ==
    \E i \in DOMAIN txlog :
        /\ txlog[i].status = "VERIFIED"
        /\ txlog[i].receipt_verified /\ txlog[i].receipt_verified_at # -1
        /\ \E v, w \in Tasks :
              /\ task[v].pc = "done" /\ task[w].pc = "done"
              /\ Targeted(v) /\ OpenSearch(w)
              /\ task[v].result.status = "success" /\ task[v].result.verified
              /\ task[w].result.status = "success" /\ task[w].result.verified
              /\ task[v].result.matched_transaction_id = i
              /\ task[w].result.matched_transaction_id = i

\* C36 as stated: a transaction with receipt_verified true has the status
\* APPROVED, FLAGGED or VERIFIED: no task marks a DECLINED one.
C36_DeclinedNeverVerified ==
    \A i \in DOMAIN txlog :
        txlog[i].receipt_verified =>
            txlog[i].status \in {"APPROVED", "FLAGGED", "VERIFIED"}

-----------------------------------------------------------------------------
(* The result of a targeted task *)

\* C38 as stated: the result of a targeted task reports a match only when
\* the confidence is 0.70 or more; at confidence 0.30, when neither the
\* amount nor the merchant matches, it reports that no match was found.
C38_TargetedMatchNeedsConfidence ==
    \A w \in Tasks :
        ( /\ task[w].pc = "done" /\ Targeted(w)
          /\ task[w].result.status = "success"
          /\ task[w].result.match_found )
        => task[w].result.match_confidence >= 700000

-----------------------------------------------------------------------------
(* The scores of the open search *)

\* the difference in cents between the amount of t and the receipt's
Difference(t) ==
    IF t.amount >= 14999 THEN t.amount - 14999 ELSE 14999 - t.amount

\* C39: a search never picks a row whose merchant name does not match the
\* receipt's; it picks a row only if the amounts differ by $50.00 or less, and
\* goes on to verify it only if they differ by $33.33 or less; the result of
\* a search reports verified only for such a row.
C39_ScoreThresholds ==
    /\ [][\A w \in Tasks : \A i \in DOMAIN txlog :
             Picks(w, i) =>
                /\ MerchantAlike(txlog[i])
                /\ Difference(txlog[i]) <= 5000
                /\ task'[w].pc = "verify" => Difference(txlog[i]) <= 3333]_vars
    /\ [](\A w \in Tasks :
             ( /\ task[w].pc = "done" /\ OpenSearch(w)
               /\ task[w].result.status = "success"
               /\ task[w].result.verified )
             => Difference(txlog[task[w].result.matched_transaction_id]) <= 3333)

\* one search has verified a row that differs by $33.33 and another has then
\* accepted, without verifying it, a row that differs by $50.00
C39_Witness ==
    \E v, w \in Tasks :
        /\ task[v].pc = "done" /\ OpenSearch(v)
        /\ task[v].result.status = "success" /\ task[v].result.verified
        /\ Difference(txlog[task[v].result.matched_transaction_id]) = 3333
        /\ task[w].pc = "done" /\ OpenSearch(w)
        /\ task[w].result.status = "success" /\ task[w].result.match_found
        /\ ~task[w].result.verified
        /\ Difference(txlog[task[w].result.matched_transaction_id]) = 5000

-----------------------------------------------------------------------------
(* Concurrent searches *)

\* C40 as stated: no two searches both accept and verify the same
\* transaction: once one has picked a row as its match, no other search
\* commits receipt_verified and VERIFIED on that row.
C40_OneSearchPerTransaction ==
    \A v, w \in Tasks :
        ( /\ v # w
          /\ task[v].pc = "done" /\ OpenSearch(v)
          /\ task[w].pc = "done" /\ OpenSearch(w)
          /\ task[v].result.status = "success" /\ task[v].result.verified
          /\ task[w].result.status = "success" /\ task[w].result.verified )
        => task[v].result.matched_transaction_id
              # task[w].result.matched_transaction_id

=============================================================================
